---- MODULE Spec2Model ----
(***************************************************************************)
(* Model of the JSON-RPC session layer of mcp-terminal: the class          *)
(* RpcClient (rpc/client.ts) over a Transport (transport/types.ts).        *)
(*                                                                         *)
(* One action per method of RpcClient that changes state: call(),          *)
(* performHandshake() (its synchronous part, and the continuation after    *)
(* `await this.initializePromise`), handle() (one inbound message) and     *)
(* close().  The remote side and the network are the environment: handle() *)
(* may be given any message at any time (late, duplicated, unsolicited).   *)
(*                                                                         *)
(* The server process is modelled beside it: the approval configuration    *)
(* and its files (types.ts), isCommandDenied() and executeCommand() with   *)
(* the events of the process it starts (shell/exec.ts), and the call_tool  *)
(* handler (server.ts).  Spec is the client, SendSpec the client over a    *)
(* transport whose send() can fail.  ServerSpec is the server from its     *)
(* startup with any configuration file to the answer of a request,         *)
(* ExecSpec the server under the default configuration with the events of  *)
(* its processes (ExecFairSpec: with fairness), PatternSpec the server     *)
(* with denylist patterns that are no regular expressions, GateSpec the    *)
(* server answering several requests, ReloadSpec the same server whose     *)
(* configuration is replaced between requests.  TransportSpec is the two   *)
(* transports alone (transport/stdio.ts, transport/sse.ts): send() with    *)
(* its start-up delay, and the frames they hand to the message callback.   *)
(***************************************************************************)
EXTENDS Integers, Sequences, FiniteSets, TLC

\* ------------------------------------------------------------------ bounds

\* how many requests a behaviour holds: its call() and performHandshake()
\* invocations together
MaxRequests == 3

\* --------------------------------------------------------- message values

\* RpcClient.INITIALIZE_ID
INITIALIZE_ID == "client-initialize-handshake"

\* the values uuid() returns, in the order in which it returns them (uuid v4
\* values are pairwise distinct and have a fixed 36-character format)
UuidNames == <<"uuid-1", "uuid-2", "uuid-3", "uuid-4", "uuid-5", "uuid-6">>

\* the ids call() can draw in a behaviour
UuidSpace == {UuidNames[n] : n \in 1..MaxRequests}

\* an id no request of this session carries
UNSOLICITED_ID == "unsolicited"

\* `'id' in m` is false: a message without id (an inbound Notification)
NoId == "<no id>"

\* the `result` member of an inbound message: absent, a falsy JSON value
\* (null, false, 0, ""), or a truthy one (an object)
Results == {"absent", "falsy", "object"}

\* the `error` member of an inbound message: absent, a falsy JSON value
\* (null, as mock-mcp-server.js sends beside a result), or an RpcError object
NoErrorField == [tag |-> "absent", code |-> 0, message |-> ""]
FalsyErrorField == [tag |-> "falsy", code |-> 0, message |-> ""]
RpcErrorObject(c, msg) == [tag |-> "object", code |-> c, message |-> msg]

\* JsonRpcResponse: {jsonrpc, id, result?, error?}
JsonRpcResponse(i, r, e) == [id |-> i, result |-> r, error |-> e]

\* the result/error members of the messages the remote side answers a call
\* with: a result, a result beside "error": null and an error beside
\* "result": null (the two shapes mock-mcp-server.js sends), and an error
ResponseMembers ==
    {<<"object", NoErrorField>>,
     <<"object", FalsyErrorField>>,
     <<"absent", RpcErrorObject(-32601, "Method not found")>>,
     <<"falsy", RpcErrorObject(-32603, "Internal error")>>}

\* the members a message with the handshake id is delivered with: those, and a
\* result that is null, false, 0 or "", neither member, and both members
InitializeMembers ==
    ResponseMembers \cup
    {<<"falsy", NoErrorField>>,
     <<"absent", NoErrorField>>,
     <<"object", RpcErrorObject(-32603, "Internal error")>>}

\* what the transport can hand to handle(): a message with any id, or a
\* message without id (an inbound Notification)
InboundMessages ==
    {JsonRpcResponse(i, mem[1], mem[2]) :
        i \in UuidSpace \cup {UNSOLICITED_ID}, mem \in ResponseMembers}
    \cup {JsonRpcResponse(INITIALIZE_ID, mem[1], mem[2]) : mem \in InitializeMembers}
    \cup {JsonRpcResponse(NoId, "absent", NoErrorField)}

NoMessage == JsonRpcResponse(NoId, "none", NoErrorField)

\* JavaScript truthiness of the two members
TruthyResult(r) == r = "object"
TruthyError(e) == e.tag = "object"

\* the Error objects the client creates
NoError == [kind |-> "none", code |-> 0, message |-> ""]
\* new Error(`RPC Error: ${error.message} (Code: ${error.code})`)
RpcCallError(e) == [kind |-> "RPC Error", code |-> e.code, message |-> e.message]
\* new Error(`Initialize failed: ${error.message} (Code: ${error.code})`)
InitializeFailedError(e) ==
    [kind |-> "Initialize failed", code |-> e.code, message |-> e.message]
\* new Error("Client connection closed during handshake"): it has no code
HandshakeClosedError ==
    [kind |-> "Client connection closed during handshake", code |-> 0, message |-> ""]

\* the code of the synthetic Response of close()
CONNECTION_CLOSED_CODE == -32000

\* close() with another code in its synthetic Response
ClosedResponse_OtherCode(i) ==
    [id |-> i, result |-> "absent",
     error |-> [tag |-> "object", code |-> -32603, message |-> "Client connection closed"]]

\* the synthetic Response close() hands to every pending callback
ClosedResponse(i) ==
    JsonRpcResponse(i, "absent",
                    RpcErrorObject(CONNECTION_CLOSED_CODE, "Client connection closed"))

\* ------------------------------------------------------- command strings

\* the longest command a request carries
MaxCommandLen == 2

\* how many run_terminal_cmd requests a behaviour of the server holds
MaxToolCalls == 2

\* the executeCommand() invocations followed after a startup with any of the
\* configuration files
MaxServerCalls == 1

\* a string is the sequence of its characters. The characters of a command are
\* two letters and the space; a pattern may hold a letter in upper case too
CommandChars == {"r", "m", " "}

\* the RegExp flag 'i': characters compare by their lower-case form
toLowerCase(ch) == IF ch = "R" THEN "r" ELSE ch

\* the class \w of RegExp
IsWordChar(ch) == ch # " "

\* the `command` strings of the requests, the empty one included
Commands == UNION {[1..n -> CommandChars] : n \in 0..MaxCommandLen}

\* String.prototype.includes: pattern occurs in str, character by character
includes(str, pattern) ==
    \E i \in 0..(Len(str) - Len(pattern)) :
        \A k \in 1..Len(pattern) : str[i + k] = pattern[k]

\* \b of RegExp at the place after the i-th character of str: exactly one of
\* the two neighbours is a word character (outside the string there is none)
WordBoundary(str, i) ==
    LET before == i >= 1 /\ IsWordChar(str[i])
        after  == i + 1 <= Len(str) /\ IsWordChar(str[i + 1])
    IN before # after

\* new RegExp(`\\b${pattern}\\b`, 'i').test(str), for a pattern of letters and
\* spaces (no character of a pattern here is special in a regular expression)
RegExpTest(pattern, str) ==
    \E i \in 0..(Len(str) - Len(pattern)) :
        /\ \A k \in 1..Len(pattern) : toLowerCase(str[i + k]) = toLowerCase(pattern[k])
        /\ WordBoundary(str, i)
        /\ WordBoundary(str, i + Len(pattern))

\* ------------------------------------------------------------ ApprovalConfig

\* autorun_mode of an ApprovalConfig
AutorunMode(e, al, dl, aa) ==
    [enabled |-> e, allowlist |-> al, denylist |-> dl,
     allow_all_other_commands |-> aa]

defaultConfig == AutorunMode(FALSE, <<>>, <<>>, FALSE)

\* the denylists and allowlists of the configuration files: a word, part of a
\* word, a word in the other case, two words, two patterns
Denylists ==
    {<<>>, << <<"r", "m">> >>, << <<"m">> >>, << <<"R">> >>,
     << <<"r", " ", "m">> >>, << <<"m", "m">>, <<"r">> >>}

Allowlists ==
    {<<>>, << <<"r">> >>, << <<"r", "m">> >>, << <<"R">> >>,
     << <<" ">>, <<"m">> >>}

\* what ApprovalConfigSchema.safeParse accepts
ApprovalConfigs ==
    {AutorunMode(e, al, dl, aa) :
        e \in BOOLEAN, al \in Allowlists, dl \in Denylists, aa \in BOOLEAN}

\* the members of autorun_mode
FieldNames == {"enabled", "allowlist", "denylist", "allow_all_other_commands"}

\* a JSON document: whether it has the top-level key autorun_mode, which
\* members that object has, which of them have a value of the wrong type, and
\* the values of the members
JsonDocument(topKey, has, bad, value) ==
    [autorun_mode |-> topKey, has |-> has, bad |-> bad, value |-> value]

\* the documents of the configuration files: every configuration in full,
\* documents that leave members out, documents the schema rejects
JsonDocuments ==
    {JsonDocument(TRUE, FieldNames, {}, c) : c \in ApprovalConfigs}
    \cup {JsonDocument(TRUE, has, {},
                       AutorunMode(TRUE, << <<"r">> >>, << <<"m">> >>, TRUE)) :
            has \in {{}, {"enabled"}, {"allowlist", "denylist"},
                     {"enabled", "allow_all_other_commands"}}}
    \cup {JsonDocument(TRUE, FieldNames, bad,
                       AutorunMode(TRUE, << <<"r">> >>, << <<"m">> >>, TRUE)) :
            bad \in {{"enabled"}, {"denylist"}}}
    \cup {JsonDocument(FALSE, {}, {}, defaultConfig)}

\* the contents of a configuration file: the text of a JSON document, or text
\* that JSON.parse rejects
JsonStrings ==
    {[json |-> TRUE, document |-> d] : d \in JsonDocuments}
    \cup {[json |-> FALSE, document |-> JsonDocument(FALSE, {}, {}, defaultConfig)]}

\* a configuration file: readFileSync returns its content or throws
ConfigFiles ==
    {[readable |-> TRUE, content |-> j] : j \in JsonStrings}
    \cup {[readable |-> FALSE,
           content |-> [json |-> FALSE,
                        document |-> JsonDocument(FALSE, {}, {}, defaultConfig)]]}

\* ApprovalConfigSchema.safeParse(document).success
safeParseConfigSuccess(document) ==
    document.autorun_mode /\ document.has \cap document.bad = {}

\* a parse that takes the members left out from the configuration in force
safeParseConfigData_Merge(document, config) ==
    AutorunMode(
        IF "enabled" \in document.has THEN document.value.enabled ELSE config.enabled,
        IF "allowlist" \in document.has
        THEN document.value.allowlist ELSE config.allowlist,
        IF "denylist" \in document.has
        THEN document.value.denylist ELSE config.denylist,
        IF "allow_all_other_commands" \in document.has
        THEN document.value.allow_all_other_commands
        ELSE config.allow_all_other_commands)

\* ApprovalConfigSchema.safeParse(document).data: a member left out gets the
\* default of the schema
safeParseConfigData(document, config) ==
    AutorunMode(
        IF "enabled" \in document.has THEN document.value.enabled ELSE FALSE,
        IF "allowlist" \in document.has THEN document.value.allowlist ELSE <<>>,
        IF "denylist" \in document.has THEN document.value.denylist ELSE <<>>,
        IF "allow_all_other_commands" \in document.has
        THEN document.value.allow_all_other_commands ELSE FALSE)

\* ------------------------------------------------------- run_terminal_cmd

RunTerminalCmdArgs ==
    [command : Commands, is_background : BOOLEAN, require_user_approval : BOOLEAN]

\* CommandExecOutcome; "pending" is the promise of a foreground execution
\* before its process has closed or failed
NoOutcome == [status |-> "none", code |-> ""]
ErrorOutcome(c) == [status |-> "error", code |-> c]
WaitingOutcome == [status |-> "waiting", code |-> "waiting_for_approval"]
\* a `truncated` member is "true", "false" or "undefined" (left out)
BackgroundSuccess ==
    [status |-> "success", code |-> "", stdout |-> <<>>, stderr |-> <<>>,
     exitCode |-> 0, truncated |-> "false"]
PendingOutcome == [status |-> "pending", code |-> ""]

\* one exec() invocation: the command line given to the shell
ExecCall(commandLine) == [command |-> commandLine]

\* ------------------------------------------------------------ child process

\* MAX_BUFFER_SIZE, the 2 MiB of exec.ts scaled down: the cap of each captured
\* stream, which the listeners of executeCommand count in characters
MAX_BUFFER_SIZE == 2

\* what executeCommand adds to MAX_BUFFER_SIZE for the maxBuffer option of
\* exec(), the 1024 of exec.ts scaled down; exec() counts in bytes
MAX_BUFFER_SLACK == 1

\* the bytes of a character in utf8: one for ASCII, more for others
CharWidths == {1, 2}

\* the longest chunk a 'data' event carries
MaxChunkLen == 2

\* options.maxBuffer of the foreground exec()
maxBuffer == MAX_BUFFER_SIZE + MAX_BUFFER_SLACK

\* the error message the 'error' handler appends to stderr, one unit long; the
\* units a process writes to a stream are numbered 1, 2, ... and this one is 0
errorMsgSuffix == <<0>>

\* the ChildProcess of the last exec() and what exec() keeps about it: the
\* bytes received on its streams (stdoutLen, stderrLen of exec()), whether
\* exec() destroyed the streams and sent the kill signal, whether that was for
\* maxBuffer, whether the timeout timer fired, the 'error' events emitted, the
\* code of the 'close' event; and the characters each stream delivered
NoChild ==
    [kind |-> "none", state |-> "none", stdoutLen |-> 0, stderrLen |-> 0,
     stdoutChars |-> 0, stderrChars |-> 0, destroyed |-> FALSE, killed |-> FALSE, overflowed |-> FALSE,
     timedOut |-> FALSE, errors |-> 0, closeCode |-> "none"]

Spawned(background) ==
    [NoChild EXCEPT !.kind = IF background THEN "background" ELSE "foreground",
                    !.state = "running"]

\* the variables of the promise executor of a foreground execution, with the
\* number of times its resolve() was invoked
NoCapture == [stdout |-> <<>>, stderr |-> <<>>, truncated |-> FALSE, resolves |-> 0]

\* the codes of a 'close' event: an exit code, or null for a process that a
\* signal ended
CloseCodes == {"0", "1", "null"}

\* the errors a ChildProcess emits as 'error' events: the shell could not be
\* spawned; such an error has the code of the system call and no signal
ExecExceptions ==
    {[code |-> "ENOENT", signal |-> "undefined"],
     [code |-> "EACCES", signal |-> "undefined"]}

\* the outcomes of a foreground execution
ForegroundSuccess(out, err, exitCode, trunc) ==
    [status |-> "success", code |-> "", stdout |-> out, stderr |-> err,
     exitCode |-> exitCode, truncated |-> trunc]

\* ---------------------------------------------------------------- tool call

TOOL_NAME == "mcp_run_terminal_cmd"

\* commands with a line break
NewlineCommands == {<<"\n">>, <<"r", "\n">>}

\* the `arguments` of a tools/call request as JSON: a member is a string, a
\* JSON boolean ("true", "false") or "absent". All well-formed ones, and some
\* that are not: a line break in the command, a member missing
RawArguments ==
    {[command |-> c, explanation |-> "string", is_background |-> b,
      require_user_approval |-> r] :
        c \in Commands, b \in {"true", "false"}, r \in {"true", "false"}}
    \cup {[command |-> c, explanation |-> "string", is_background |-> "false",
           require_user_approval |-> "false"] : c \in NewlineCommands}
    \cup {[command |-> <<"r">>, explanation |-> "string", is_background |-> "false",
           require_user_approval |-> "absent"],
          [command |-> <<"r">>, explanation |-> "absent", is_background |-> "false",
           require_user_approval |-> "false"],
          [command |-> <<"r">>, explanation |-> "string", is_background |-> "absent",
           require_user_approval |-> "false"]}

\* a schema that takes a command with a line break
safeParseSuccess_NoRefine(args) ==
    /\ args.explanation = "string"
    /\ args.is_background \in {"true", "false"}
    /\ args.require_user_approval \in {"true", "false"}

\* RunTerminalCmdArgsSchema.safeParse(args).success
safeParseSuccess(args) ==
    /\ ~includes(args.command, <<"\n">>)
    /\ args.explanation = "string"
    /\ args.is_background \in {"true", "false"}
    /\ args.require_user_approval \in {"true", "false"}

\* RunTerminalCmdArgsSchema.safeParse(args).data
safeParseData(args) ==
    [command |-> args.command,
     is_background |-> args.is_background = "true",
     require_user_approval |-> args.require_user_approval = "true"]

\* the tools/call requests: for the tool, and one for a name the server has not
ToolRequests ==
    {[name |-> TOOL_NAME, arguments |-> a] : a \in RawArguments}
    \cup {[name |-> "other_tool",
           arguments |-> [command |-> <<"r">>, explanation |-> "string",
                          is_background |-> "false",
                          require_user_approval |-> "false"]]}

\* what the call_tool handler returned for the last request: nothing yet, a
\* result, `undefined`, or it threw; "awaiting" while it awaits executeCommand
NoToolResult == [kind |-> "none", isError |-> FALSE, text |-> [error |-> FALSE]]
AwaitingOutcome == [kind |-> "awaiting", isError |-> FALSE, text |-> [error |-> FALSE]]
ReturnsUndefined == [kind |-> "undefined", isError |-> FALSE, text |-> [error |-> FALSE]]
HandlerThrows == [kind |-> "throws", isError |-> FALSE, text |-> [error |-> FALSE]]
ToolResult(isError, text) == [kind |-> "result", isError |-> isError, text |-> text]

InvalidArgumentsResult ==
    ToolResult(TRUE, [error |-> TRUE,
                      message |-> "Invalid arguments for run_terminal_cmd"])

InternalErrorResult ==
    ToolResult(TRUE, [error |-> TRUE,
                      message |-> "Internal server error executing tool"])

\* the promise executeCommand() returned was rejected
RejectedOutcome == [status |-> "rejected", code |-> "SyntaxError"]

\* the `switch (executionOutcome.status)` of the handler, and its catch
ResultOfOutcome(o) ==
    CASE o.status = "success" ->
            ToolResult(FALSE, [stdout |-> o.stdout, stderr |-> o.stderr,
                               exitCode |-> o.exitCode, truncated |-> o.truncated])
      [] o.status = "error" ->
            ToolResult(TRUE, [error |-> TRUE, code |-> o.code])
      [] o.status = "rejected" -> InternalErrorResult
      [] o.status = "pending" -> AwaitingOutcome
      [] OTHER -> ReturnsUndefined

\* --------------------------------------------------------------- transports

\* how many send() invocations and how many inbound frames a behaviour of a
\* transport holds
MaxSends == 3
MaxFrames == 2

\* the text of an inbound frame, a line of the pipe or the data of an event,
\* as its characters: the JSON texts of two messages, a text cut short and
\* an empty text
Frames ==
    {<<"{", "1", "}">>, <<"{", "2", "}">>, <<"{", "1">>, <<>>}

\* JSON.parse(text) returns and does not throw
IsJson(text) ==
    /\ Len(text) = 3
    /\ text[1] = "{"
    /\ text[2] \in {"1", "2"}
    /\ text[3] = "}"

\* JSON.parse(text): the message of the text
JSONparse(text) == [id |-> text[2]]

\* a StdioTransport after its construction and onMessage(cb): isFirstSend,
\* the messages whose send() waits in delay(200), in the order in which the
\* timers were set, the messages written to stdin, the number of send()
\* invocations; the lines read from stdout and the invocations of cb
NewStdioTransport ==
    [isFirstSend |-> TRUE, delayed |-> <<>>, written |-> <<>>, sends |-> 0,
     frames |-> <<>>, callbacks |-> <<>>]

\* an SseTransport after its construction and onMessage(cb): the data of the
\* events parsed from the stream and the invocations of this.onMsg
NewSseTransport == [onMsg |-> TRUE, frames |-> <<>>, callbacks |-> <<>>]

\* ------------------------------------------------------------------ state

VARIABLES
    closed,             \* RpcClient.closed
    pending,            \* RpcClient.pending: id -> callback; a callback is
                        \* named by the call() promise its closure settles
    initializePromise,  \* RpcClient.initializePromise: 0 is null, else the
                        \* number of the promise object
    resolveInitialize,  \* RpcClient.resolveInitialize: 0 is null, else the
                        \* number of the promise it resolves
    rejectInitialize,   \* RpcClient.rejectInitialize, likewise
    callPromise,        \* the promises call() returned, in the order of the calls
    initPromise,        \* the initializePromise objects created so far
    handshakeCalls,     \* the performHandshake() invocations so far
    sent,               \* the t.send() invocations so far
    transportCloses,    \* the t.close() invocations so far
    sendRejected,       \* the t.send() invocations whose promise rejected
    lastOp,             \* the operation that ran last
    activeConfig,       \* config.ts: the active ApprovalConfig
    params,             \* the RunTerminalCmdArgs of the last executeCommand()
    outcome,            \* what that executeCommand() returned
    execCalls,          \* the exec() invocations that executeCommand() made
    toolCalls,          \* how many times executeCommand() was invoked
    child,              \* the ChildProcess of the last exec()
    capture,            \* the closure of the last foreground execution
    toolResult,         \* what the call_tool handler returned last
    stdio,              \* a StdioTransport: its flag, timers, writes and lines
    sse                 \* an SseTransport: its events and callback invocations

\* the state of the server process
serverVars == <<activeConfig, params, outcome, execCalls, toolCalls, child,
               capture, toolResult>>

\* the state of the two transports
transportVars == <<stdio, sse>>

vars == <<closed, pending, initializePromise, resolveInitialize, rejectInitialize,
          callPromise, initPromise, handshakeCalls, sent,
          transportCloses, sendRejected, lastOp, transportVars, serverVars>>

\* the state of the RpcClient
sessionVars == <<closed, pending, initializePromise, resolveInitialize,
                 rejectInitialize, callPromise, initPromise, handshakeCalls, sent,
                 transportCloses, sendRejected, lastOp>>

\* the state of the client process
clientVars == <<sessionVars, transportVars>>

\* everything but the record of the last operation
core == <<closed, pending, initializePromise, resolveInitialize, rejectInitialize,
          callPromise, initPromise, handshakeCalls, sent,
          transportCloses, sendRejected, transportVars, serverVars>>

\* the empty Map
EmptyMap == [k \in {} |-> k]

\* a promise call() returned, with the id call() drew for it: `settles` counts
\* the invocations of its res/rej, `resp` is the Response its callback was
\* given, `openAtCall` whether the session was open when call() ran
UnsettledCall(i, open) ==
    [id |-> i, state |-> "unsettled", value |-> NoMessage, err |-> NoError,
     resp |-> NoMessage, settles |-> 0, openAtCall |-> open]

\* an initializePromise object
UnsettledInit ==
    [state |-> "unsettled", result |-> "none", err |-> NoError, settles |-> 0]

\* one performHandshake() invocation: the promise it awaits and what the
\* async function returned or threw
AwaitingCaller(g) ==
    [awaits |-> g, state |-> "awaiting", result |-> "none", err |-> NoError]

\* the record of the last operation: its name and, of handle(), the branch
\* it took
Op(name, b) == [op |-> name, branch |-> b]

Init ==
    /\ closed = FALSE
    /\ pending = EmptyMap
    /\ initializePromise = 0
    /\ resolveInitialize = 0
    /\ rejectInitialize = 0
    /\ callPromise = <<>>
    /\ initPromise = <<>>
    /\ handshakeCalls = <<>>
    /\ sent = [initialize |-> 0, initialized |-> 0, calls |-> {}]
    /\ transportCloses = 0
    /\ sendRejected = {}
    /\ lastOp = Op("new", "")
    /\ activeConfig = defaultConfig
    /\ params = [command |-> <<>>, is_background |-> FALSE,
                 require_user_approval |-> FALSE]
    /\ outcome = NoOutcome
    /\ execCalls = <<>>
    /\ toolCalls = 0
    /\ child = NoChild
    /\ capture = NoCapture
    /\ toolResult = NoToolResult
    /\ stdio = NewStdioTransport
    /\ sse = NewSseTransport

\* ----------------------------------------------------------- promises

\* res(v) / rej(e) of a call() promise: only the first invocation settles it
ResolveCall(p, v, m) ==
    IF p.state = "unsettled"
    THEN [p EXCEPT !.state = "resolved", !.value = v, !.resp = m, !.settles = @ + 1]
    ELSE [p EXCEPT !.settles = @ + 1]

RejectCall(p, e, m) ==
    IF p.state = "unsettled"
    THEN [p EXCEPT !.state = "rejected", !.err = e, !.resp = m, !.settles = @ + 1]
    ELSE [p EXCEPT !.settles = @ + 1]

\* the callback without its `if (error)` branch
Callback_IgnoresError(p, response) == ResolveCall(p, response, response)

\* the callback call() registers: (response) => error ? rej(...) : res(response)
Callback(p, response) ==
    IF TruthyError(response.error)
    THEN RejectCall(p, RpcCallError(response.error), response)
    ELSE ResolveCall(p, response, response)

\* resolve(v) / reject(e) of an initializePromise
ResolveInit(p, r) ==
    IF p.state = "unsettled"
    THEN [p EXCEPT !.state = "resolved", !.result = r, !.settles = @ + 1]
    ELSE [p EXCEPT !.settles = @ + 1]

RejectInit(p, e) ==
    IF p.state = "unsettled"
    THEN [p EXCEPT !.state = "rejected", !.err = e, !.settles = @ + 1]
    ELSE [p EXCEPT !.settles = @ + 1]

\* ------------------------------------------------------------- RpcClient

\* an id generator whose second value is the reserved handshake id
uuid_Reserved(n) == IF n = 2 THEN INITIALIZE_ID ELSE UuidNames[n]

\* uuid(): the n-th value drawn
uuid(n) == UuidNames[n]

\* call(method, params)
call ==
    /\ UNCHANGED <<sendRejected, transportVars, serverVars>>
    /\ Len(callPromise) + Len(handshakeCalls) < MaxRequests
    /\ LET n == Len(callPromise) + 1
           id == uuid(n)
       IN /\ callPromise' = Append(callPromise, UnsettledCall(id, ~closed))
          /\ pending' = (id :> n) @@ pending
          /\ sent' = [sent EXCEPT !.calls = @ \cup {id}]
          /\ lastOp' = Op("call", "")
    /\ UNCHANGED <<closed, initializePromise, resolveInitialize, rejectInitialize,
                   initPromise, handshakeCalls, transportCloses>>

\* the handshake branch without the three assignments of null
handleInitialize_NoReset(m) ==
    /\ initPromise' =
         IF TruthyResult(m.result) /\ resolveInitialize # 0
         THEN [initPromise EXCEPT
                 ![resolveInitialize] = ResolveInit(@, m.result)]
         ELSE IF TruthyError(m.error) /\ rejectInitialize # 0
         THEN [initPromise EXCEPT
                 ![rejectInitialize] = RejectInit(@, InitializeFailedError(m.error))]
         ELSE initPromise
    /\ UNCHANGED <<resolveInitialize, rejectInitialize, initializePromise>>
    /\ UNCHANGED <<pending, callPromise>>

\* handle(m), the handshake branch: lines 56-68
handleInitialize(m) ==
    /\ initPromise' =
         IF TruthyResult(m.result) /\ resolveInitialize # 0
         THEN [initPromise EXCEPT
                 ![resolveInitialize] = ResolveInit(@, m.result)]
         ELSE IF TruthyError(m.error) /\ rejectInitialize # 0
         THEN [initPromise EXCEPT
                 ![rejectInitialize] = RejectInit(@, InitializeFailedError(m.error))]
         ELSE initPromise
    /\ resolveInitialize' = 0
    /\ rejectInitialize' = 0
    /\ initializePromise' = 0
    /\ UNCHANGED <<pending, callPromise>>

\* handlePending as a client that assumes FIFO response order would have it:
\* the Response goes to the oldest pending callback
handlePending_Fifo(m) ==
    LET oldest == CHOOSE k \in DOMAIN pending :
                      \A j \in DOMAIN pending : pending[k] <= pending[j]
    IN /\ pending' = [k \in DOMAIN pending \ {oldest} |-> pending[k]]
       /\ callPromise' = [callPromise EXCEPT ![pending[oldest]] = Callback(@, m)]
       /\ UNCHANGED <<initializePromise, resolveInitialize, rejectInitialize, initPromise>>

\* handlePending without `this.pending.delete(m.id)`
handlePending_KeepEntry(m) ==
    /\ pending' = pending
    /\ callPromise' = [callPromise EXCEPT ![pending[m.id]] = Callback(@, m)]
    /\ UNCHANGED <<initializePromise, resolveInitialize, rejectInitialize, initPromise>>

\* handle(m), the pending branch: lines 70-74
handlePending(m) ==
    /\ pending' = [k \in DOMAIN pending \ {m.id} |-> pending[k]]
    /\ callPromise' = [callPromise EXCEPT ![pending[m.id]] = Callback(@, m)]
    /\ UNCHANGED <<initializePromise, resolveInitialize, rejectInitialize, initPromise>>

\* handle without the `if (this.closed) return`
handle_NoClosedCheck(m) ==
    /\ UNCHANGED <<sendRejected, transportVars, serverVars>>
    /\ IF m.id # NoId /\ m.id = INITIALIZE_ID
       THEN /\ lastOp' = Op("handle", IF closed THEN "closed" ELSE "initialize")
            /\ handleInitialize(m)
       ELSE IF m.id # NoId /\ m.id \in DOMAIN pending
       THEN /\ lastOp' = Op("handle", IF closed THEN "closed" ELSE "pending")
            /\ handlePending(m)
       ELSE /\ lastOp' = Op("handle", IF closed THEN "closed" ELSE "discarded")
            /\ UNCHANGED <<pending, callPromise, initializePromise, resolveInitialize,
                           rejectInitialize, initPromise>>
    /\ UNCHANGED <<closed, handshakeCalls, sent, transportCloses>>

\* handle(m): one inbound message
handle(m) ==
    /\ UNCHANGED <<sendRejected, transportVars, serverVars>>
    /\ IF closed
       THEN /\ lastOp' = Op("handle", "closed")
            /\ UNCHANGED <<pending, callPromise, initializePromise, resolveInitialize,
                           rejectInitialize, initPromise>>
       ELSE IF m.id # NoId /\ m.id = INITIALIZE_ID
       THEN /\ lastOp' = Op("handle", "initialize")
            /\ handleInitialize(m)
       ELSE IF m.id # NoId /\ m.id \in DOMAIN pending
       THEN /\ lastOp' = Op("handle", "pending")
            /\ handlePending(m)
       ELSE /\ lastOp' = Op("handle", "discarded")
            /\ UNCHANGED <<pending, callPromise, initializePromise, resolveInitialize,
                           rejectInitialize, initPromise>>
    /\ UNCHANGED <<closed, handshakeCalls, sent, transportCloses>>

\* performHandshake without the `if (!this.initializePromise)`
performHandshake_Always ==
    /\ UNCHANGED <<sendRejected, transportVars, serverVars>>
    /\ Len(callPromise) + Len(handshakeCalls) < MaxRequests
    /\ LET g == Len(initPromise) + 1
       IN /\ initPromise' = Append(initPromise, UnsettledInit)
          /\ resolveInitialize' = g
          /\ rejectInitialize' = g
          /\ initializePromise' = g
          /\ sent' = [sent EXCEPT !.initialize = @ + 1]
          /\ handshakeCalls' = Append(handshakeCalls, AwaitingCaller(g))
    /\ lastOp' = Op("performHandshake", "")
    /\ UNCHANGED <<closed, pending, callPromise, transportCloses>>

\* performHandshake(), up to `await this.initializePromise`: lines 78-100
performHandshake ==
    /\ UNCHANGED <<sendRejected, transportVars, serverVars>>
    /\ Len(callPromise) + Len(handshakeCalls) < MaxRequests
    /\ IF initializePromise = 0
       THEN LET g == Len(initPromise) + 1
            IN /\ initPromise' = Append(initPromise, UnsettledInit)
               /\ resolveInitialize' = g
               /\ rejectInitialize' = g
               /\ initializePromise' = g
               /\ sent' = [sent EXCEPT !.initialize = @ + 1]
               /\ handshakeCalls' = Append(handshakeCalls, AwaitingCaller(g))
       ELSE /\ handshakeCalls' = Append(handshakeCalls, AwaitingCaller(initializePromise))
            /\ UNCHANGED <<initPromise, resolveInitialize, rejectInitialize,
                           initializePromise, sent>>
    /\ lastOp' = Op("performHandshake", "")
    /\ UNCHANGED <<closed, pending, callPromise, transportCloses>>

\* the continuation with the notification in a `finally`: it is sent whether
\* the awaited promise resolved or rejected
resumeHandshake_AlwaysNotifies(c) ==
    /\ UNCHANGED <<sendRejected, transportVars, serverVars>>
    /\ handshakeCalls[c].state = "awaiting"
    /\ LET p == initPromise[handshakeCalls[c].awaits]
       IN /\ p.state # "unsettled"
          /\ sent' = [sent EXCEPT !.initialized = @ + 1]
          /\ IF p.state = "resolved"
             THEN handshakeCalls' = [handshakeCalls EXCEPT
                        ![c].state = "resolved", ![c].result = p.result]
             ELSE handshakeCalls' = [handshakeCalls EXCEPT
                        ![c].state = "rejected", ![c].err = p.err]
    /\ lastOp' = Op("resumeHandshake", "")
    /\ UNCHANGED <<closed, pending, initializePromise, resolveInitialize,
                   rejectInitialize, callPromise, initPromise, transportCloses>>

\* performHandshake(), after `await this.initializePromise`: lines 100-110. The
\* await throws when the promise rejected; otherwise the notification is sent
\* and the result returned
resumeHandshake(c) ==
    /\ UNCHANGED <<sendRejected, transportVars, serverVars>>
    /\ handshakeCalls[c].state = "awaiting"
    /\ LET p == initPromise[handshakeCalls[c].awaits]
       IN /\ p.state # "unsettled"
          /\ IF p.state = "resolved"
             THEN /\ sent' = [sent EXCEPT !.initialized = @ + 1]
                  /\ handshakeCalls' = [handshakeCalls EXCEPT
                        ![c].state = "resolved", ![c].result = p.result]
             ELSE /\ handshakeCalls' = [handshakeCalls EXCEPT
                        ![c].state = "rejected", ![c].err = p.err]
                  /\ UNCHANGED sent
    /\ lastOp' = Op("resumeHandshake", "")
    /\ UNCHANGED <<closed, pending, initializePromise, resolveInitialize,
                   rejectInitialize, callPromise, initPromise, transportCloses>>

\* close() that clears the pending map without invoking the callbacks
CloseCallbacks_Skip(keys, map, promises) == promises

\* this.pending.forEach((callback, id) => callback({... id, error: {...}}))
RECURSIVE CloseCallbacks(_, _, _)
CloseCallbacks(keys, map, promises) ==
    IF keys = {} THEN promises
    ELSE LET k == CHOOSE x \in keys : TRUE
         IN CloseCallbacks(keys \ {k}, map,
                [promises EXCEPT ![map[k]] = Callback(@, ClosedResponse(k))])

\* close without the `if (!this.closed)`
close_NoGuard ==
    /\ UNCHANGED <<sendRejected, transportVars, serverVars>>
    /\ lastOp' = Op("close", "")
    /\ closed' = TRUE
    /\ transportCloses' = transportCloses + 1
    /\ callPromise' = CloseCallbacks(DOMAIN pending, pending, callPromise)
    /\ pending' = EmptyMap
    /\ IF rejectInitialize # 0
       THEN /\ initPromise' = [initPromise EXCEPT
                 ![rejectInitialize] = RejectInit(@, HandshakeClosedError)]
            /\ resolveInitialize' = 0
            /\ rejectInitialize' = 0
            /\ initializePromise' = 0
       ELSE UNCHANGED <<initPromise, resolveInitialize, rejectInitialize,
                        initializePromise>>
    /\ UNCHANGED <<handshakeCalls, sent>>

\* close(): lines 135-156; t.close() may throw, which is caught and logged
close ==
    /\ UNCHANGED <<sendRejected, transportVars, serverVars>>
    /\ lastOp' = Op("close", "")
    /\ IF ~closed
       THEN /\ closed' = TRUE
            /\ transportCloses' = transportCloses + 1
            /\ callPromise' = CloseCallbacks(DOMAIN pending, pending, callPromise)
            /\ pending' = EmptyMap
            /\ IF rejectInitialize # 0
               THEN /\ initPromise' = [initPromise EXCEPT
                         ![rejectInitialize] = RejectInit(@, HandshakeClosedError)]
                    /\ resolveInitialize' = 0
                    /\ rejectInitialize' = 0
                    /\ initializePromise' = 0
               ELSE UNCHANGED <<initPromise, resolveInitialize, rejectInitialize,
                                initializePromise>>
       ELSE UNCHANGED <<closed, transportCloses, callPromise, pending, initPromise,
                        resolveInitialize, rejectInitialize, initializePromise>>
    /\ UNCHANGED <<handshakeCalls, sent>>

\* one t.send() invocation: of the Request of the n-th call(), of the initialize
\* Request of the n-th initializePromise, or of the notification of the n-th
\* performHandshake()
Send(kind, n) == [kind |-> kind, n |-> n]

\* the t.send() invocations made so far
Sends ==
    {Send("call", n) : n \in 1..Len(callPromise)}
    \cup {Send("initialize", g) : g \in 1..Len(initPromise)}
    \cup {Send("notifications/initialized", c) :
            c \in {x \in 1..Len(handshakeCalls) : handshakeCalls[x].state = "resolved"}}

\* the promise of one t.send() rejects (SseTransport.send rethrows what fetch
\* threw). call() and performHandshake() neither await that promise nor attach
\* a handler to it, so no field of the client changes; what the runtime does
\* with the unhandled rejection is not part of the session
sendFails(r) ==
    /\ r \in Sends \ sendRejected
    /\ sendRejected' = sendRejected \cup {r}
    /\ lastOp' = Op("sendFails", "")
    /\ UNCHANGED <<closed, pending, initializePromise, resolveInitialize,
                   rejectInitialize, callPromise, initPromise, handshakeCalls,
                   sent, transportCloses, transportVars, serverVars>>

\* the transport delivers one message to the callback registered in the
\* constructor: t.onMessage((m) => this.handle(m))
onMessage == \E m \in InboundMessages : handle(m)

resume == \E c \in 1..MaxRequests : c <= Len(handshakeCalls) /\ resumeHandshake(c)

sendRejects == \E r \in Sends : sendFails(r)

Next ==
    \/ call
    \/ performHandshake
    \/ resume
    \/ onMessage
    \/ close

Spec == Init /\ [][Next]_vars

\* the session over a transport whose send() can fail. A failing send() changes
\* no field of the client, so the client behaves under SendSpec as under Spec
SendNext ==
    \/ Next
    \/ sendRejects

SendSpec == Init /\ [][SendNext]_vars

\* ---------------------------------------------------------------- transports

\* StdioTransport.send(msg) for the n-th message: with isFirstSend the write
\* waits for delay(200), otherwise it is made at once
stdioSend ==
    /\ stdio.sends < MaxSends
    /\ LET n == stdio.sends + 1
       IN stdio' = IF stdio.isFirstSend
                   THEN [stdio EXCEPT !.sends = n, !.delayed = Append(@, n)]
                   ELSE [stdio EXCEPT !.sends = n, !.written = Append(@, n)]
    /\ UNCHANGED <<sse, sessionVars, serverVars>>

\* the timer of the oldest waiting send() fires (timers of one duration fire
\* in the order in which they were set): the flag is cleared and the message
\* written
delayElapsed ==
    /\ stdio.delayed # <<>>
    /\ stdio' = [stdio EXCEPT !.isFirstSend = FALSE,
                              !.delayed = Tail(@),
                              !.written = Append(@, Head(stdio.delayed))]
    /\ UNCHANGED <<sse, sessionVars, serverVars>>

\* a listener that hands a line that is no JSON to the callback as it is
onLine_SurfacesError(callbacks, line) ==
    IF IsJson(line) THEN Append(callbacks, JSONparse(line))
    ELSE Append(callbacks, [id |-> "SyntaxError"])

\* the "line" listener of StdioTransport.onMessage: cb(JSON.parse(line)) in a
\* try whose catch logs
onLine(callbacks, line) ==
    IF IsJson(line) THEN Append(callbacks, JSONparse(line)) ELSE callbacks

\* readline emits a line of the stdout of the subprocess
stdioLine ==
    /\ Len(stdio.frames) < MaxFrames
    /\ \E line \in Frames :
          stdio' = [stdio EXCEPT !.frames = Append(@, line),
                                 !.callbacks = onLine(@, line)]
    /\ UNCHANGED <<sse, sessionVars, serverVars>>

\* the parser callback of SseTransport.start for an event: with data and a
\* registered callback, this.onMsg(JSON.parse(data)) in a try whose catch
\* skips the event
onEvent(transport, data) ==
    IF data # <<>> /\ transport.onMsg /\ IsJson(data)
    THEN Append(transport.callbacks, JSONparse(data))
    ELSE transport.callbacks

\* the parser emits an event of the stream
sseEvent ==
    /\ Len(sse.frames) < MaxFrames
    /\ \E data \in Frames :
          sse' = [sse EXCEPT !.frames = Append(@, data),
                             !.callbacks = onEvent(sse, data)]
    /\ UNCHANGED <<stdio, sessionVars, serverVars>>

TransportNext ==
    \/ stdioSend
    \/ delayElapsed
    \/ stdioLine
    \/ sseEvent

\* the two transports by themselves
TransportSpec == Init /\ [][TransportNext]_vars

\* ---------------------------------------------------------------- server

\* new RegExp(`\\b${pattern}\\b`, 'i') throws a SyntaxError: of the characters
\* of the patterns, an opening parenthesis makes a pattern no regular
\* expression
InvalidRegExp(pattern) == \E i \in 1..Len(pattern) : pattern[i] = "("

\* shouldAutoApproveCommand(command) throws: the configuration is enabled and
\* the loop over the denylist comes to a pattern that is no regular
\* expression before one that matches
SyntaxErrorThrown(config, command) ==
    /\ config.enabled
    /\ \E k \in 1..Len(config.denylist) :
          /\ InvalidRegExp(config.denylist[k])
          /\ \A j \in 1..(k - 1) : ~RegExpTest(config.denylist[j], command)

\* shouldAutoApproveCommand with the allow_all_other_commands test before the
\* denylist loop
shouldAutoApproveCommand_AllowAllFirst(config, command) ==
    IF ~config.enabled THEN FALSE
    ELSE IF config.allow_all_other_commands THEN TRUE
    ELSE IF \E d \in 1..Len(config.denylist) : RegExpTest(config.denylist[d], command)
    THEN FALSE
    ELSE \E a \in 1..Len(config.allowlist) : includes(command, config.allowlist[a])

\* shouldAutoApproveCommand with the allowlist matched like the denylist, as
\* whole words
shouldAutoApproveCommand_AllowWord(config, command) ==
    IF ~config.enabled THEN FALSE
    ELSE IF \E d \in 1..Len(config.denylist) : RegExpTest(config.denylist[d], command)
    THEN FALSE
    ELSE IF config.allow_all_other_commands THEN TRUE
    ELSE \E a \in 1..Len(config.allowlist) : RegExpTest(config.allowlist[a], command)

\* shouldAutoApproveCommand(command), types.ts lines 121-160; config is
\* activeConfig.autorun_mode as the function reads it
shouldAutoApproveCommand(config, command) ==
    IF ~config.enabled THEN FALSE
    ELSE IF \E d \in 1..Len(config.denylist) : RegExpTest(config.denylist[d], command)
    THEN FALSE
    ELSE IF config.allow_all_other_commands THEN TRUE
    ELSE \E a \in 1..Len(config.allowlist) : includes(command, config.allowlist[a])

\* isCommandDenied(command), exec.ts lines 219-235; config is
\* getConfig().autorun_mode
isCommandDenied(config, command) ==
    IF ~config.enabled
    THEN \E d \in 1..Len(config.denylist) : includes(command, config.denylist[d])
    ELSE ~shouldAutoApproveCommand(config, command)

\* setConfigFromJson(jsonString): the data of a document that parses and
\* passes the schema replaces the active configuration; anything else is
\* logged and the configuration stays
setConfigFromJson(jsonString) ==
    activeConfig' =
        IF jsonString.json /\ safeParseConfigSuccess(jsonString.document)
        THEN safeParseConfigData(jsonString.document, activeConfig)
        ELSE activeConfig

\* loadConfigFromFile(filePath) for a file with the given content; a file that
\* cannot be read is logged
loadConfigFile(file) ==
    /\ toolCalls = 0
    /\ IF file.readable
       THEN setConfigFromJson(file.content)
       ELSE activeConfig' = activeConfig
    /\ UNCHANGED <<params, outcome, execCalls, toolCalls, child, capture,
                   toolResult, clientVars>>

\* processArgs() at startup: a --file argument names a configuration file
loadConfigFromFile == \E file \in ConfigFiles : loadConfigFile(file)

\* executeCommand that answers a denied command with the error whatever
\* require_user_approval is
executeCommand_DenyAlways(p) ==
    /\ toolCalls < MaxToolCalls
    /\ toolCalls' = toolCalls + 1
    /\ params' = p
    /\ IF isCommandDenied(activeConfig, p.command)
       THEN /\ outcome' = ErrorOutcome("security_violation")
            /\ execCalls' = <<>>
       ELSE IF p.require_user_approval
               /\ ~shouldAutoApproveCommand(activeConfig, p.command)
       THEN /\ outcome' = WaitingOutcome
            /\ execCalls' = <<>>
       ELSE IF p.is_background
       THEN /\ execCalls' = <<ExecCall(p.command \o <<" ", "&">>)>>
            /\ outcome' = BackgroundSuccess
       ELSE /\ execCalls' = <<ExecCall(p.command)>>
            /\ outcome' = PendingOutcome
    /\ child' = IF execCalls' = <<>> THEN NoChild ELSE Spawned(p.is_background)
    /\ capture' = NoCapture
    /\ UNCHANGED <<activeConfig, clientVars>>

\* executeCommand without the `if (params.require_user_approval)` block
executeCommand_NoApprovalGate(p) ==
    /\ toolCalls < MaxToolCalls
    /\ toolCalls' = toolCalls + 1
    /\ params' = p
    /\ IF isCommandDenied(activeConfig, p.command)
       THEN /\ outcome' = IF ~p.require_user_approval
                          THEN ErrorOutcome("security_violation")
                          ELSE WaitingOutcome
            /\ execCalls' = <<>>
       ELSE IF p.is_background
       THEN /\ execCalls' = <<ExecCall(p.command \o <<" ", "&">>)>>
            /\ outcome' = BackgroundSuccess
       ELSE /\ execCalls' = <<ExecCall(p.command)>>
            /\ outcome' = PendingOutcome
    /\ child' = IF execCalls' = <<>> THEN NoChild ELSE Spawned(p.is_background)
    /\ capture' = NoCapture
    /\ UNCHANGED <<activeConfig, clientVars>>

\* executeCommand that asks for approval whenever require_user_approval is
\* set, without consulting shouldAutoApproveCommand
executeCommand_NoAutoApprove(p) ==
    /\ toolCalls < MaxToolCalls
    /\ toolCalls' = toolCalls + 1
    /\ params' = p
    /\ IF isCommandDenied(activeConfig, p.command)
       THEN /\ outcome' = IF ~p.require_user_approval
                          THEN ErrorOutcome("security_violation")
                          ELSE WaitingOutcome
            /\ execCalls' = <<>>
       ELSE IF p.require_user_approval
       THEN /\ outcome' = WaitingOutcome
            /\ execCalls' = <<>>
       ELSE IF p.is_background
       THEN /\ execCalls' = <<ExecCall(p.command \o <<" ", "&">>)>>
            /\ outcome' = BackgroundSuccess
       ELSE /\ execCalls' = <<ExecCall(p.command)>>
            /\ outcome' = PendingOutcome
    /\ child' = IF execCalls' = <<>> THEN NoChild ELSE Spawned(p.is_background)
    /\ capture' = NoCapture
    /\ UNCHANGED <<activeConfig, clientVars>>

\* an executeCommand() that runs a denied command when the request before it
\* was kept waiting for the same command
executeCommand_ApprovedAfterWaiting(p) ==
    /\ toolCalls < MaxToolCalls
    /\ toolCalls' = toolCalls + 1
    /\ params' = p
    /\ IF SyntaxErrorThrown(activeConfig, p.command)
       THEN /\ outcome' = RejectedOutcome
            /\ execCalls' = <<>>
       ELSE IF isCommandDenied(activeConfig, p.command)
               /\ ~(outcome = WaitingOutcome /\ params.command = p.command)
       THEN /\ outcome' = IF ~p.require_user_approval
                          THEN ErrorOutcome("security_violation")
                          ELSE WaitingOutcome
            /\ execCalls' = <<>>
       ELSE IF p.require_user_approval
               /\ ~shouldAutoApproveCommand(activeConfig, p.command)
       THEN /\ outcome' = WaitingOutcome
            /\ execCalls' = <<>>
       ELSE IF p.is_background
       THEN /\ execCalls' = <<ExecCall(p.command \o <<" ", "&">>)>>
            /\ outcome' = BackgroundSuccess
       ELSE /\ execCalls' = <<ExecCall(p.command)>>
            /\ outcome' = PendingOutcome
    /\ child' = IF execCalls' = <<>> THEN NoChild ELSE Spawned(p.is_background)
    /\ capture' = NoCapture
    /\ UNCHANGED <<activeConfig, clientVars>>

\* an executeCommand() whose deny check reads the configuration of the startup
\* and whose approval check reads the active one
executeCommand_StartupDenyCheck(p) ==
    /\ toolCalls < MaxToolCalls
    /\ toolCalls' = toolCalls + 1
    /\ params' = p
    /\ IF SyntaxErrorThrown(activeConfig, p.command)
       THEN /\ outcome' = RejectedOutcome
            /\ execCalls' = <<>>
       ELSE IF isCommandDenied(defaultConfig, p.command)
       THEN /\ outcome' = IF ~p.require_user_approval
                          THEN ErrorOutcome("security_violation")
                          ELSE WaitingOutcome
            /\ execCalls' = <<>>
       ELSE IF p.require_user_approval
               /\ ~shouldAutoApproveCommand(activeConfig, p.command)
       THEN /\ outcome' = WaitingOutcome
            /\ execCalls' = <<>>
       ELSE IF p.is_background
       THEN /\ execCalls' = <<ExecCall(p.command \o <<" ", "&">>)>>
            /\ outcome' = BackgroundSuccess
       ELSE /\ execCalls' = <<ExecCall(p.command)>>
            /\ outcome' = PendingOutcome
    /\ child' = IF execCalls' = <<>> THEN NoChild ELSE Spawned(p.is_background)
    /\ capture' = NoCapture
    /\ UNCHANGED <<activeConfig, clientVars>>

\* an executeCommand() that takes the approval of a command as given when
\* the request before it was kept waiting for the same command
executeCommand_RemembersWaiting(p) ==
    /\ toolCalls < MaxToolCalls
    /\ toolCalls' = toolCalls + 1
    /\ params' = p
    /\ IF SyntaxErrorThrown(activeConfig, p.command)
       THEN /\ outcome' = RejectedOutcome
            /\ execCalls' = <<>>
       ELSE IF isCommandDenied(activeConfig, p.command)
       THEN /\ outcome' = IF ~p.require_user_approval
                          THEN ErrorOutcome("security_violation")
                          ELSE WaitingOutcome
            /\ execCalls' = <<>>
       ELSE IF p.require_user_approval
               /\ ~shouldAutoApproveCommand(activeConfig, p.command)
               /\ ~(outcome = WaitingOutcome /\ params.command = p.command)
       THEN /\ outcome' = WaitingOutcome
            /\ execCalls' = <<>>
       ELSE IF p.is_background
       THEN /\ execCalls' = <<ExecCall(p.command \o <<" ", "&">>)>>
            /\ outcome' = BackgroundSuccess
       ELSE /\ execCalls' = <<ExecCall(p.command)>>
            /\ outcome' = PendingOutcome
    /\ child' = IF execCalls' = <<>> THEN NoChild ELSE Spawned(p.is_background)
    /\ capture' = NoCapture
    /\ UNCHANGED <<activeConfig, clientVars>>

\* executeCommand(params), exec.ts lines 244-310, up to the return of the
\* outcome or, in the foreground, of the promise of the outcome
executeCommand(p) ==
    /\ toolCalls < MaxToolCalls
    /\ toolCalls' = toolCalls + 1
    /\ params' = p
    /\ IF SyntaxErrorThrown(activeConfig, p.command)
       THEN /\ outcome' = RejectedOutcome
            /\ execCalls' = <<>>
       ELSE IF isCommandDenied(activeConfig, p.command)
       THEN /\ outcome' = IF ~p.require_user_approval
                          THEN ErrorOutcome("security_violation")
                          ELSE WaitingOutcome
            /\ execCalls' = <<>>
       ELSE IF p.require_user_approval
               /\ ~shouldAutoApproveCommand(activeConfig, p.command)
       THEN /\ outcome' = WaitingOutcome
            /\ execCalls' = <<>>
       ELSE IF p.is_background
       THEN /\ execCalls' = <<ExecCall(p.command \o <<" ", "&">>)>>
            /\ outcome' = BackgroundSuccess
       ELSE /\ execCalls' = <<ExecCall(p.command)>>
            /\ outcome' = PendingOutcome
    /\ child' = IF execCalls' = <<>> THEN NoChild ELSE Spawned(p.is_background)
    /\ capture' = NoCapture
    /\ UNCHANGED <<activeConfig, clientVars>>

\* the call_tool handler of server.ts gives the parsed arguments of a request
\* to executeCommand
\* the call_tool handler of server.ts for one request, up to its return or,
\* for a foreground execution, its `await executeCommand(...)`
callToolHandler(request) ==
    IF request.name # TOOL_NAME
    THEN /\ toolResult' = HandlerThrows
         /\ UNCHANGED <<activeConfig, params, outcome, execCalls, toolCalls, child,
                        capture, clientVars>>
    ELSE IF ~safeParseSuccess(request.arguments)
    THEN /\ toolResult' = InvalidArgumentsResult
         /\ UNCHANGED <<activeConfig, params, outcome, execCalls, toolCalls, child,
                        capture, clientVars>>
    ELSE /\ executeCommand(safeParseData(request.arguments))
         /\ toolResult' = ResultOfOutcome(outcome')

\* the server is given a tools/call request of the set
callToolFrom(requests) == \E request \in requests : callToolHandler(request)

\* the requests whose arguments have the shape the schema asks for
WellFormedRequests ==
    {request \in ToolRequests :
        request.name = TOOL_NAME /\ safeParseSuccess(request.arguments)}

callTool == toolCalls < MaxServerCalls /\ callToolFrom(WellFormedRequests)

ServerNext ==
    \/ loadConfigFromFile
    \/ callTool

ServerSpec == Init /\ [][ServerNext]_vars


\* ---------------------------------------------------- events of the process

\* resolve(o) of the promise of a foreground execution: a promise settles
\* once, later calls change nothing; the handler, awaiting it, then returns
resolve(o) ==
    /\ capture' = [capture EXCEPT !.resolves = @ + 1]
    /\ outcome' = IF capture.resolves = 0 THEN o ELSE outcome
    /\ toolResult' = IF capture.resolves = 0 THEN ResultOfOutcome(o) ELSE toolResult

\* the units number first..last of a stream, a chunk of output
Chunk(first, last) == [i \in 1..(last - first + 1) |-> first + i - 1]

\* data.substring(0, n) and, for captured text, text.substring(0, n)
substring(data, n) == SubSeq(data, 1, IF n < 0 THEN 0 ELSE IF n > Len(data) THEN Len(data) ELSE n)

\* the 'data' listener of process.stdout
onStdoutData(c, data) ==
    IF Len(c.stdout) + Len(data) > MAX_BUFFER_SIZE
    THEN [c EXCEPT !.stdout = @ \o substring(data, MAX_BUFFER_SIZE - Len(c.stdout)),
                   !.truncated = TRUE]
    ELSE IF ~c.truncated
    THEN [c EXCEPT !.stdout = @ \o data]
    ELSE c

\* the 'data' listener of process.stderr
onStderrData(c, data) ==
    IF Len(c.stderr) + Len(data) > MAX_BUFFER_SIZE
    THEN [c EXCEPT !.stderr = @ \o substring(data, MAX_BUFFER_SIZE - Len(c.stderr)),
                   !.truncated = TRUE]
    ELSE IF ~c.truncated
    THEN [c EXCEPT !.stderr = @ \o data]
    ELSE c

\* the foreground process is running and exec() has not destroyed its streams
Readable == child.kind = "foreground" /\ child.state = "running" /\ ~child.destroyed

\* the process writes a chunk to stdout, n characters of w bytes each: the
\* listener exec() itself installed adds the bytes to stdoutLen and, past
\* maxBuffer, destroys the streams and kills the process; then the listener of
\* executeCommand runs
stdoutData ==
    /\ Readable
    /\ \E n \in 1..MaxChunkLen, w \in CharWidths :
          LET received == child.stdoutLen + n * w
              exceeded == received > maxBuffer
          IN /\ child' = [child EXCEPT !.stdoutLen = received,
                                       !.stdoutChars = @ + n,
                                       !.destroyed = @ \/ exceeded,
                                       !.killed = @ \/ exceeded,
                                       !.overflowed = @ \/ exceeded]
             /\ capture' = onStdoutData(capture,
                                        Chunk(child.stdoutChars + 1,
                                              child.stdoutChars + n))
    /\ UNCHANGED <<activeConfig, params, outcome, execCalls, toolCalls, toolResult,
                   clientVars>>

\* the same for stderr
stderrData ==
    /\ Readable
    /\ \E n \in 1..MaxChunkLen, w \in CharWidths :
          LET received == child.stderrLen + n * w
              exceeded == received > maxBuffer
          IN /\ child' = [child EXCEPT !.stderrLen = received,
                                       !.stderrChars = @ + n,
                                       !.destroyed = @ \/ exceeded,
                                       !.killed = @ \/ exceeded,
                                       !.overflowed = @ \/ exceeded]
             /\ capture' = onStderrData(capture,
                                        Chunk(child.stderrChars + 1,
                                              child.stderrChars + n))
    /\ UNCHANGED <<activeConfig, params, outcome, execCalls, toolCalls, toolResult,
                   clientVars>>

\* the timer of options.timeout fires while the process runs: exec() destroys
\* the streams and sends the kill signal (SIGTERM); without a callback given
\* to exec() that is all it does
timeoutExpires ==
    /\ child.kind = "foreground"
    /\ child.state = "running"
    /\ ~child.timedOut
    /\ ~child.killed
    /\ child.errors = 0
    /\ child' = [child EXCEPT !.timedOut = TRUE, !.destroyed = TRUE, !.killed = TRUE]
    /\ UNCHANGED <<activeConfig, params, outcome, execCalls, toolCalls, capture,
                   toolResult, clientVars>>

\* exitCode of the 'close' listener: code === null ? -1 : code
ExitCodeOf(code) == CASE code = "null" -> -1 [] code = "0" -> 0 [] OTHER -> 1

\* a 'close' listener that never reports the truncation
onClose_TruncatedUndefined(code) ==
    resolve(ForegroundSuccess(capture.stdout, capture.stderr, ExitCodeOf(code),
                              "undefined"))

\* a 'close' listener whose outcome replaces one already produced
onClose_Overrides(code) ==
    /\ capture' = [capture EXCEPT !.resolves = @ + 1]
    /\ outcome' = ForegroundSuccess(capture.stdout, capture.stderr,
                                    ExitCodeOf(code),
                                    IF capture.truncated THEN "true" ELSE "undefined")
    /\ toolResult' = ResultOfOutcome(outcome')

\* the 'close' listener of executeCommand
onClose(code) ==
    resolve(ForegroundSuccess(capture.stdout, capture.stderr, ExitCodeOf(code),
                              IF capture.truncated THEN "true" ELSE "undefined"))

\* the 'close' event: the process ended and its streams are closed. A process
\* that a signal killed closes with code null
processClose ==
    /\ child.kind = "foreground"
    /\ child.state = "running"
    /\ \E code \in CloseCodes :
          /\ child.killed => code = "null"
          /\ child' = [child EXCEPT !.state = "closed", !.closeCode = code]
          /\ onClose(code)
    /\ UNCHANGED <<activeConfig, params, execCalls, toolCalls, clientVars>>

\* the 'error' listener of executeCommand
onError(err) ==
    IF err.signal = "SIGTERM" \/ err.code = "ERR_CHILD_PROCESS_STDIO_MAXBUFFER"
    THEN LET kept == IF Len(capture.stderr) + Len(errorMsgSuffix) > MAX_BUFFER_SIZE
                     THEN substring(capture.stderr,
                                    MAX_BUFFER_SIZE - Len(errorMsgSuffix))
                     ELSE capture.stderr
         IN /\ capture' = [capture EXCEPT !.stderr = kept \o errorMsgSuffix,
                                          !.truncated = TRUE,
                                          !.resolves = @ + 1]
            /\ outcome' = IF capture.resolves = 0
                          THEN ForegroundSuccess(capture.stdout,
                                                 kept \o errorMsgSuffix,
                                                 IF err.code # "undefined"
                                                 THEN err.code ELSE 1, "true")
                          ELSE outcome
            /\ toolResult' = IF capture.resolves = 0
                             THEN ResultOfOutcome(outcome') ELSE toolResult
    ELSE IF err.code = "ETIMEDOUT" \/ err.signal = "SIGKILL"
    THEN resolve(ErrorOutcome("timeout"))
    ELSE resolve(ErrorOutcome("exec_error"))

\* the 'error' event of a ChildProcess: the shell could not be spawned, which
\* is known before any output and before the timeout. The 'close' event may
\* follow it
processError ==
    /\ child.kind = "foreground"
    /\ child.state = "running"
    /\ child.errors = 0
    /\ ~child.killed
    /\ child.stdoutLen = 0 /\ child.stderrLen = 0
    /\ \E err \in ExecExceptions :
          /\ child' = [child EXCEPT !.errors = @ + 1, !.destroyed = TRUE]
          /\ onError(err)
    /\ UNCHANGED <<activeConfig, params, execCalls, toolCalls, clientVars>>

\* a callback that reports the error of the background process as the outcome
backgroundCallback_Reports(failed) ==
    /\ child' = [child EXCEPT !.state = "closed",
                              !.errors = IF failed THEN @ + 1 ELSE @]
    /\ outcome' = IF failed THEN ErrorOutcome("background_error") ELSE outcome
    /\ UNCHANGED <<activeConfig, params, execCalls, toolCalls, capture, toolResult,
                   clientVars>>

\* the callback of the background exec(): it logs an error, nothing else
backgroundCallback(failed) ==
    /\ child' = [child EXCEPT !.state = "closed",
                              !.errors = IF failed THEN @ + 1 ELSE @]
    /\ UNCHANGED <<activeConfig, params, outcome, execCalls, toolCalls, capture,
                   toolResult, clientVars>>

\* the shell of a background command ended, with or without an error
backgroundDone ==
    /\ child.kind = "background"
    /\ child.state = "running"
    /\ \E failed \in BOOLEAN : backgroundCallback(failed)

\* the requests of the specification of the process: for the command "r" in
\* the foreground and in the background, with and without the approval flag,
\* and the requests that the handler does not pass on to executeCommand
ExecRequests ==
    {request \in ToolRequests :
        request.arguments.command \in {<<"r">>} \cup NewlineCommands}

execTool == callToolFrom(ExecRequests)

ExecNext ==
    \/ execTool
    \/ stdoutData
    \/ stderrData
    \/ timeoutExpires
    \/ processClose
    \/ processError
    \/ backgroundDone

\* the server with its default configuration and the processes it starts
ExecSpec == Init /\ [][ExecNext]_vars

\* denylists with any strings as patterns: those of Denylists, and lists with
\* a pattern that is no regular expression
AnyDenylists ==
    Denylists \cup {<< <<"(">> >>, << <<"r">>, <<"(">> >>}

\* the configurations with such denylists
AnyPatternConfigs ==
    {AutorunMode(e, al, dl, aa) :
        e \in BOOLEAN, al \in {<<>>, << <<"r">> >>}, dl \in AnyDenylists,
        aa \in BOOLEAN}

\* a configuration file with any strings as patterns is loaded at startup
loadAnyPatterns ==
    \E c \in AnyPatternConfigs :
        loadConfigFile([readable |-> TRUE,
                        content |-> [json |-> TRUE,
                                     document |-> JsonDocument(TRUE, FieldNames, {}, c)]])

\* requests for the commands "r" and "m"
PatternRequests ==
    {[name |-> TOOL_NAME,
      arguments |-> [command |-> c, explanation |-> "string",
                     is_background |-> b, require_user_approval |-> r]] :
        c \in {<<"r">>, <<"m">>}, b \in {"true", "false"}, r \in {"true", "false"}}

patternTool == callToolFrom(PatternRequests)

PatternNext == loadAnyPatterns \/ patternTool

\* the server with configurations whose patterns are any strings
PatternSpec == Init /\ [][PatternNext]_vars

\* configurations for a sequence of requests: with and without a denylist
\* and an allowlist
GateConfigs ==
    {AutorunMode(e, al, dl, aa) :
        e \in BOOLEAN, al \in {<<>>, << <<"r">> >>},
        dl \in {<<>>, << <<"m">> >>, << <<"R">> >>}, aa \in BOOLEAN}

loadGateConfig ==
    \E c \in GateConfigs :
        loadConfigFile([readable |-> TRUE,
                        content |-> [json |-> TRUE,
                                     document |-> JsonDocument(TRUE, FieldNames, {}, c)]])

gateTool == callToolFrom(PatternRequests)

GateNext == loadGateConfig \/ gateTool

\* the server answering one request after the other
GateSpec == Init /\ [][GateNext]_vars

\* setConfigFromJson() called while the server answers requests
reloadConfig ==
    /\ \E c \in GateConfigs :
          setConfigFromJson([json |-> TRUE,
                             document |-> JsonDocument(TRUE, FieldNames, {}, c)])
    /\ UNCHANGED <<params, outcome, execCalls, toolCalls, child, capture,
                   toolResult, clientVars>>

ReloadNext == reloadConfig \/ gateTool

\* the server answering requests, its configuration replaced at any time
\* between them
ReloadSpec == Init /\ [][ReloadNext]_vars

\* the timer of a running process fires, and a process that was sent the
\* kill signal or could not be spawned is closed
ExecFairSpec ==
    /\ ExecSpec
    /\ WF_vars(timeoutExpires)
    /\ WF_vars(processClose /\ (child.killed \/ child.errors > 0))

\* ------------------------------------------------------------ the claims

\* the numbers of the call() invocations so far
Calls == 1..Len(callPromise)

\* the numbers of the performHandshake() invocations so far
HandshakeCalls == 1..Len(handshakeCalls)

IsClosedError(e) ==
    e = [kind |-> "RPC Error", code |-> CONNECTION_CLOSED_CODE,
         message |-> "Client connection closed"]

\* C1, in every state: res/rej of a call made on an open session is invoked at
\* most once; while the session is open an unsettled call keeps its entry of
\* the pending map, and once the session is closed the call is settled; a
\* settled call was given one Response with its id
C1_StateInv ==
    \A n \in Calls :
        LET p == callPromise[n]
        IN p.openAtCall =>
            /\ p.settles <= 1
            /\ p.state = "unsettled" =>
                 /\ p.settles = 0
                 /\ ~closed
                 /\ p.id \in DOMAIN pending
                 /\ pending[p.id] = n
            /\ p.state # "unsettled" =>
                 /\ p.settles = 1
                 /\ p.id \notin DOMAIN pending
                 /\ p.resp.id = p.id
                 /\ p.resp = ClosedResponse(p.id) => closed /\ IsClosedError(p.err)

\* C1, in every step: a Response with the id of an unsettled call that arrives
\* before close() settles the call with that Response; close() settles it with
\* the close-induced error; and a settled promise never changes again
C1_Step ==
    \A n \in Calls :
        LET p == callPromise[n]
            q == callPromise'[n]
        IN p.openAtCall =>
            /\ p.state = "unsettled" =>
                 /\ \A m \in InboundMessages :
                      (m.id = p.id /\ handle(m)) =>
                          /\ q.state # "unsettled"
                          /\ q.resp = m
                          /\ q.settles = 1
                 /\ close => /\ q.state = "rejected"
                             /\ IsClosedError(q.err)
                             /\ q.settles = 1
            /\ p.state # "unsettled" => q = p

\* C1: every call() made while the session is open settles exactly once: with
\* the Response that carries its id (or its remote error) when that arrives
\* before close(), and with the close-induced error at close() otherwise; so it
\* is settled once such a Response has arrived or the session is closed
C1_CallSettlesExactlyOnce ==
    /\ []C1_StateInv
    /\ [][C1_Step]_vars

\* C1 witness: one call was settled by its Response and another by close()
C1_Witness ==
    \E n, k \in Calls :
        /\ callPromise[n].openAtCall /\ callPromise[k].openAtCall
        /\ callPromise[n].state = "resolved" /\ callPromise[n].settles = 1
        /\ callPromise[k].state = "rejected" /\ IsClosedError(callPromise[k].err)
        /\ callPromise[k].settles = 1

\* C2: whatever the arrival order, a call is only ever settled by a Response
\* that carries the call's own id, and the value it resolves with is that
\* Response
C2_ResolvesWithOwnResponse ==
    \A n \in Calls :
        LET p == callPromise[n]
        IN /\ p.state # "unsettled" => p.resp.id = p.id
           /\ p.state = "resolved" => p.value = p.resp /\ p.value.id = p.id
           /\ p.state = "unsettled" => p.resp = NoMessage

\* C2 witness: two calls were outstanding together and the Response of the
\* later one arrived first: it resolved the later call, the earlier one waits
C2_Witness ==
    /\ Len(callPromise) >= 2
    /\ callPromise[1].state = "unsettled"
    /\ callPromise[1].id \in DOMAIN pending
    /\ callPromise[2].state = "resolved"
    /\ callPromise[2].value.id = callPromise[2].id
    /\ ~closed

\* what the first close() does to the calls and leaves of the pending map
CloseSettlesCalls ==
    /\ pending' = EmptyMap
    /\ \A k \in DOMAIN pending :
         LET p == callPromise[pending[k]]
             q == callPromise'[pending[k]]
         IN p.state = "unsettled" =>
              /\ q.state = "rejected"
              /\ q.err.code = CONNECTION_CLOSED_CODE
              /\ q.settles = 1
    /\ \A n \in Calls : callPromise'[n].settles <= 1

\* C3 as stated: the first close() settles every pending call and an in-flight
\* handshake exactly once, each with an error that carries code -32000, and
\* leaves the pending map empty
C3_AllCarryCode32000 ==
    [][(~closed /\ close) =>
          /\ CloseSettlesCalls
          /\ rejectInitialize # 0 =>
               /\ initPromise'[rejectInitialize].state = "rejected"
               /\ initPromise'[rejectInitialize].err.code = CONNECTION_CLOSED_CODE
               /\ initPromise'[rejectInitialize].settles = 1]_vars

\* C3 amended: the first close() settles every pending call exactly once with
\* the synthetic error that carries code -32000, settles an in-flight handshake
\* exactly once with the error "Client connection closed during handshake",
\* which carries no code, and leaves the pending map empty
C3_CloseSettlesPending ==
    [][(~closed /\ close) =>
          /\ CloseSettlesCalls
          /\ rejectInitialize # 0 =>
               /\ initPromise[rejectInitialize].state = "unsettled"
               /\ initPromise'[rejectInitialize].state = "rejected"
               /\ initPromise'[rejectInitialize].err = HandshakeClosedError
               /\ initPromise'[rejectInitialize].settles = 1
               /\ rejectInitialize' = 0 /\ resolveInitialize' = 0
               /\ initializePromise' = 0]_vars

\* C3 witness: close() has just run with a call pending and a handshake in
\* flight, and both are rejected
C3_Witness ==
    /\ lastOp.op = "close" /\ closed /\ pending = EmptyMap
    /\ \E n \in Calls :
         callPromise[n].state = "rejected" /\ IsClosedError(callPromise[n].err)
    /\ \E g \in 1..Len(initPromise) :
         initPromise[g].state = "rejected" /\ initPromise[g].err = HandshakeClosedError

\* C4: a close() on a closed session changes nothing: the transport is not
\* closed again, no callback is invoked, no field of the session changes
C4_CloseIdempotent ==
    [][(closed /\ close) => UNCHANGED core]_vars

\* C4 witness: a close() has just run on a session that was closed before (the
\* first close() leaves no pending entry; this one found the entry of a call
\* made after it and left it), and the transport was closed once
C4_Witness ==
    /\ lastOp.op = "close" /\ closed
    /\ DOMAIN pending # {}
    /\ transportCloses = 1

\* C5: a message handled after close() changes nothing, whatever its id
\* (written as "the step changes nothing, or it is no handle(m) step")
C5_IgnoredAfterClose ==
    [][closed => \/ UNCHANGED core
                 \/ \A m \in InboundMessages : ~handle(m)]_vars

\* C5 witness: handle() has just run on a closed session on which a handshake
\* and a call had been made
C5_Witness ==
    /\ closed /\ lastOp.op = "handle" /\ lastOp.branch = "closed"
    /\ Len(callPromise) >= 1 /\ Len(handshakeCalls) >= 1

\* a performHandshake() that has returned or thrown did so with the outcome
\* of the promise it awaited
CallerHasPromiseOutcome(c) ==
    LET h == handshakeCalls[c]
        p == initPromise[h.awaits]
    IN /\ h.state = "resolved" => p.state = "resolved" /\ h.result = p.result
       /\ h.state = "rejected" => p.state = "rejected" /\ h.err = p.err

\* C6: a performHandshake() made while a handshake is in flight sends nothing
\* and creates no promise: it awaits the promise of the handshake in flight;
\* and the callers that await one promise get one outcome
C6_HandshakeShared ==
    /\ [](\A c, d \in HandshakeCalls :
            /\ CallerHasPromiseOutcome(c)
            /\ (/\ handshakeCalls[c].awaits = handshakeCalls[d].awaits
                /\ handshakeCalls[c].state # "awaiting"
                /\ handshakeCalls[d].state # "awaiting")
               => /\ handshakeCalls[c].state = handshakeCalls[d].state
                  /\ handshakeCalls[c].result = handshakeCalls[d].result
                  /\ handshakeCalls[c].err = handshakeCalls[d].err)
    /\ [][(initializePromise # 0 /\ performHandshake) =>
            /\ sent' = sent
            /\ initPromise' = initPromise
            /\ initializePromise' = initializePromise
            /\ handshakeCalls'[Len(handshakeCalls')].awaits = initializePromise]_vars

\* C6 witness: two performHandshake() calls shared one initialize Request and
\* both returned its result
C6_Witness ==
    /\ Len(handshakeCalls) >= 2
    /\ handshakeCalls[1].awaits = handshakeCalls[2].awaits
    /\ handshakeCalls[1].state = "resolved"
    /\ handshakeCalls[2].state = "resolved"
    /\ sent.initialize = 1

\* the message carries a remote error: an error object and no result
CarriesRemoteError(m) == TruthyError(m.error) /\ ~TruthyResult(m.result)

\* C7: a handshake Response with a remote error rejects the promise of the
\* handshake in flight with an error that holds the remote's code and message
\* and resets the handshake state; a caller that awaits it fails with that
\* error; and with the state reset, performHandshake() creates a new promise
\* and sends a new initialize Request
C7_HandshakeRemoteError ==
    /\ [][(~closed /\ rejectInitialize # 0) =>
            \A m \in InboundMessages :
                (m.id = INITIALIZE_ID /\ CarriesRemoteError(m) /\ handle(m)) =>
                    /\ initPromise'[rejectInitialize].state = "rejected"
                    /\ initPromise'[rejectInitialize].err.kind = "Initialize failed"
                    /\ initPromise'[rejectInitialize].err.code = m.error.code
                    /\ initPromise'[rejectInitialize].err.message = m.error.message
                    /\ initializePromise' = 0
                    /\ resolveInitialize' = 0
                    /\ rejectInitialize' = 0]_vars
    /\ [][\A c \in HandshakeCalls :
            (/\ initPromise[handshakeCalls[c].awaits].state = "rejected"
             /\ resumeHandshake(c)) =>
                /\ handshakeCalls'[c].state = "rejected"
                /\ handshakeCalls'[c].err = initPromise[handshakeCalls[c].awaits].err
                /\ sent' = sent]_vars
    /\ [][(initializePromise = 0 /\ performHandshake) =>
            /\ sent'.initialize = sent.initialize + 1
            /\ Len(initPromise') = Len(initPromise) + 1
            /\ initializePromise' = Len(initPromise')
            /\ initPromise'[initializePromise'].state = "unsettled"]_vars

\* C7 witness: the first handshake failed with the remote error -32601, its
\* caller got that error, and a second initialize Request was sent
C7_Witness ==
    /\ Len(handshakeCalls) >= 2
    /\ handshakeCalls[1].state = "rejected"
    /\ handshakeCalls[1].err.kind = "Initialize failed"
    /\ handshakeCalls[1].err.code = -32601
    /\ handshakeCalls[1].err.message = "Method not found"
    /\ handshakeCalls[2].awaits = 2
    /\ sent.initialize = 2

\* C8: on an open session a message whose id is neither the handshake id nor
\* a key of the pending map changes nothing (the step changes nothing, or it
\* is no handle(m) step of such a message), and no call's res/rej is ever
\* invoked twice
C8_UnknownIdDiscarded ==
    /\ [](\A n \in Calls : callPromise[n].settles <= 1)
    /\ [][~closed =>
            \/ UNCHANGED core
            \/ \A m \in InboundMessages :
                 ~(/\ m.id # INITIALIZE_ID
                   /\ m.id \notin DOMAIN pending
                   /\ handle(m))]_vars

\* C8 witness: a message has just been discarded on a session that has a call
\* a Response had resolved before (a second Response for it is discarded)
C8_Witness ==
    /\ lastOp.op = "handle" /\ lastOp.branch = "discarded"
    /\ \E n \in Calls :
         /\ callPromise[n].state = "resolved"
         /\ callPromise[n].settles = 1
         /\ callPromise[n].id \notin DOMAIN pending

\* C9: no call is registered under the handshake id; a message with the
\* handshake id touches no call and no pending entry; a message with another
\* id touches no part of the handshake state (each step leaves that part
\* alone, or it is no handle(m) step of such a message)
C9_IdSpacesDisjoint ==
    /\ [](/\ INITIALIZE_ID \notin DOMAIN pending
          /\ \A n \in Calls : callPromise[n].id # INITIALIZE_ID)
    /\ [][\A m \in InboundMessages :
            \/ IF m.id = INITIALIZE_ID
               THEN UNCHANGED <<pending, callPromise>>
               ELSE UNCHANGED <<initPromise, initializePromise, resolveInitialize,
                                rejectInitialize>>
            \/ ~handle(m)]_vars

\* C9 witness: with two calls pending, the handshake Response arrived and
\* resolved the handshake; both calls are still pending
C9_Witness ==
    /\ lastOp.op = "handle" /\ lastOp.branch = "initialize"
    /\ \E g \in 1..Len(initPromise) : initPromise[g].state = "resolved"
    /\ Len(callPromise) >= 2
    /\ \A n \in Calls :
         callPromise[n].state = "unsettled" /\ callPromise[n].id \in DOMAIN pending

\* the result payload alone
ResultPayload(m) == [result |-> m.result]

\* C10 as stated: a call whose Response has an error (object) is rejected with
\* that error's code and message, and any other call resolves with the result
\* payload of its Response
C10_ResolvesWithPayload ==
    \A n \in Calls :
        LET p == callPromise[n]
        IN p.state # "unsettled" =>
             IF TruthyError(p.resp.error)
             THEN /\ p.state = "rejected"
                  /\ p.err.code = p.resp.error.code
                  /\ p.err.message = p.resp.error.message
             ELSE /\ p.state = "resolved"
                  /\ p.value = ResultPayload(p.resp)

\* C10 amended: a call whose Response has an error object is rejected with an
\* error that holds that error's code and message, and any other call resolves
\* with the Response itself, whose result member is the payload
C10_RejectsOrResolvesWithResponse ==
    \A n \in Calls :
        LET p == callPromise[n]
        IN p.state # "unsettled" =>
             IF TruthyError(p.resp.error)
             THEN /\ p.state = "rejected"
                  /\ p.err.kind = "RPC Error"
                  /\ p.err.code = p.resp.error.code
                  /\ p.err.message = p.resp.error.message
                  /\ p.value = NoMessage
             ELSE /\ p.state = "resolved"
                  /\ p.value = p.resp
                  /\ p.value.result = p.resp.result
                  /\ p.err = NoError

\* C10 witness: one call was rejected with the remote error -32603 and the
\* other resolved with a Response that holds a result
C10_Witness ==
    \E n, k \in Calls :
        /\ callPromise[n].state = "rejected"
        /\ callPromise[n].err.code = -32603
        /\ callPromise[n].err.message = "Internal error"
        /\ callPromise[k].state = "resolved"
        /\ callPromise[k].value.result = "object"

\* C11: when t.send() fails for the Request of a call() or of a
\* performHandshake(), the failure reaches the caller as an error: the promise
\* the caller waits on is rejected
C11_SendFailureSurfaced ==
    /\ \A n \in Calls :
          Send("call", n) \in sendRejected => callPromise[n].state = "rejected"
    /\ \A c \in HandshakeCalls :
          Send("initialize", handshakeCalls[c].awaits) \in sendRejected
          => initPromise[handshakeCalls[c].awaits].state = "rejected"

\* the notifications sent are those of the performHandshake() invocations that
\* returned a result, and each of these awaited a promise that handle() resolved
C12_StateInv ==
    /\ sent.initialized
         = Cardinality({c \in HandshakeCalls : handshakeCalls[c].state = "resolved"})
    /\ \A c \in HandshakeCalls :
          handshakeCalls[c].state = "resolved"
          => /\ initPromise[handshakeCalls[c].awaits].state = "resolved"
             /\ TruthyResult(handshakeCalls[c].result)

C12_Step ==
    \* a handshake promise is resolved only by handle() given a handshake
    \* Response with a result
    /\ \A g \in 1..Len(initPromise) :
          (initPromise[g].state = "unsettled" /\ initPromise'[g].state = "resolved")
          => \E m \in InboundMessages :
                m.id = INITIALIZE_ID /\ TruthyResult(m.result) /\ handle(m)
    \* the notification is sent only by a performHandshake() whose awaited
    \* promise is resolved, once, and without a change of the pending map
    /\ sent'.initialized # sent.initialized
       => /\ sent'.initialized = sent.initialized + 1
          /\ pending' = pending
          /\ \E c \in HandshakeCalls :
                /\ initPromise[handshakeCalls[c].awaits].state = "resolved"
                /\ resumeHandshake(c)
    \* a performHandshake() whose awaited promise is rejected (remote error or
    \* close()) sends nothing when it resumes
    /\ \A c \in HandshakeCalls :
          (initPromise[handshakeCalls[c].awaits].state = "rejected" /\ resumeHandshake(c))
          => sent' = sent

\* C12: notifications/initialized is sent only after a successful handshake
\* Response was received, never after a failed or close-aborted handshake, and
\* creates no entry of the pending map
C12_NotificationAfterSuccess == []C12_StateInv /\ [][C12_Step]_vars

\* a first handshake failed and its caller sent nothing; a second one
\* succeeded and its caller sent the one notification
C12_Witness ==
    /\ sent.initialized = 1
    /\ \E c \in HandshakeCalls : handshakeCalls[c].state = "rejected"
    /\ \E c \in HandshakeCalls : handshakeCalls[c].state = "resolved"

\* ---- the claims about the policy and executeCommand, under ServerSpec

\* the request the server handled and the configuration it was handled under
Handled == toolCalls > 0
Command == params.command

\* the command matches some pattern of the list as a case-insensitive whole word
MatchesAnyWord(list, command) ==
    \E k \in 1..Len(list) : RegExpTest(list[k], command)

\* the command contains some pattern of the list as a substring
ContainsAny(list, command) ==
    \E k \in 1..Len(list) : includes(command, list[k])

\* what executeCommand() did: it refused the command, asked for approval, or
\* started a process
Refused == outcome = ErrorOutcome("security_violation") /\ execCalls = <<>>
Waiting == outcome = WaitingOutcome /\ execCalls = <<>>
Started == Len(execCalls) = 1 /\ outcome.status \in {"success", "pending"}

\* C13: with enabled = true, a command that matches a denylist pattern is
\* denied whatever allowAllOthers and the allowlist are: under the active
\* configuration no process is started and the request is refused (or, with
\* require_user_approval, kept waiting), and the policy denies it under every
\* other allowlist and allowAllOthers too
C13_DenylistTerminal ==
    (Handled /\ activeConfig.enabled /\ MatchesAnyWord(activeConfig.denylist, Command))
    => /\ IF params.require_user_approval THEN Waiting ELSE Refused
       /\ \A al \in Allowlists, aa \in BOOLEAN :
             isCommandDenied([activeConfig EXCEPT !.allowlist = al,
                                 !.allow_all_other_commands = aa], Command)

\* a command on the denylist that the allowlist contains too, with
\* allow_all_other_commands set, was refused
C13_Witness ==
    /\ Handled /\ activeConfig.enabled /\ activeConfig.allow_all_other_commands
    /\ MatchesAnyWord(activeConfig.denylist, Command)
    /\ ContainsAny(activeConfig.allowlist, Command)
    /\ Refused

\* C14: with enabled = false the decision is Deny exactly when the command
\* matches a denylist pattern as a case-insensitive whole word, and Admit
\* otherwise (seen on the requests without require_user_approval: Deny is the
\* security_violation error)
C14_DisabledDeniesWholeWords ==
    (Handled /\ ~activeConfig.enabled /\ ~params.require_user_approval)
    => (Refused <=> MatchesAnyWord(activeConfig.denylist, Command))

\* C15: with enabled = true and no denylist match the decision is Admit exactly
\* when allowAllOthers is true or the command contains an allowlist pattern as
\* a substring, and Deny otherwise
C15_AdmitByAllowlistOrAllowAll ==
    (Handled /\ activeConfig.enabled /\ ~MatchesAnyWord(activeConfig.denylist, Command))
    => LET admit == \/ activeConfig.allow_all_other_commands
                    \/ ContainsAny(activeConfig.allowlist, Command)
       IN /\ isCommandDenied(activeConfig, Command) <=> ~admit
          /\ Started <=> admit
          /\ ~admit => IF params.require_user_approval THEN Waiting ELSE Refused

\* a command was admitted through an allowlist pattern that is only a part of
\* one of its words
C15_Witness ==
    /\ Handled /\ activeConfig.enabled /\ ~activeConfig.allow_all_other_commands
    /\ ~MatchesAnyWord(activeConfig.denylist, Command)
    /\ ContainsAny(activeConfig.allowlist, Command)
    /\ ~MatchesAnyWord(activeConfig.allowlist, Command)
    /\ Started

\* C16: every command that contains a denylist entry as a substring is
\* rejected, also when the entry is only a part of a longer word
C16_DenylistSubstringsRejected ==
    (Handled /\ ContainsAny(activeConfig.denylist, Command))
    => /\ isCommandDenied(activeConfig, Command)
       /\ ~Started

\* C17: the command counts as a denylist match under enabled = false exactly
\* when it does under enabled = true (allow_all_other_commands set, so that
\* under enabled = true the denylist alone decides)
C17_DenylistMatchUniform ==
    Handled
    => isCommandDenied([activeConfig EXCEPT !.enabled = FALSE], Command)
       = isCommandDenied([activeConfig EXCEPT !.enabled = TRUE,
                             !.allow_all_other_commands = TRUE], Command)

\* the decision executeCommand() combines from the policy and the request's
\* require_user_approval
CombinedDecision ==
    IF isCommandDenied(activeConfig, Command)
    THEN IF params.require_user_approval THEN "RequireApproval" ELSE "Deny"
    ELSE IF params.require_user_approval
            /\ ~shouldAutoApproveCommand(activeConfig, Command)
    THEN "RequireApproval"
    ELSE "Admit"

\* C18: a process is started only when the combined decision is Admit; Deny
\* returns the security_violation error, RequireApproval returns Waiting, and
\* neither starts a process
C18_ProcessOnlyOnAdmit ==
    Handled
    => /\ CombinedDecision = "Deny" => Refused
       /\ CombinedDecision = "RequireApproval" => Waiting
       /\ outcome.status \in {"error", "waiting"} => execCalls = <<>>
       /\ execCalls # <<>> => (CombinedDecision = "Admit" /\ Started)

\* a command the policy admits was kept waiting for approval, and no process
\* was started
C18_Witness ==
    /\ Handled /\ ~isCommandDenied(activeConfig, Command)
    /\ params.require_user_approval
    /\ Waiting

\* C19: when the request sets require_user_approval and the policy denies the
\* command, executeCommand() returns Waiting and not the security_violation
\* error
C19_DeniedWithApprovalWaits ==
    (Handled /\ params.require_user_approval /\ isCommandDenied(activeConfig, Command))
    => Waiting

\* a command on the denylist, sent with require_user_approval, is waiting
C19_Witness ==
    /\ Handled /\ activeConfig.enabled /\ params.require_user_approval
    /\ MatchesAnyWord(activeConfig.denylist, Command)
    /\ Waiting

C21_BackgroundReturnsAtOnce ==
    child.kind = "background" => outcome = BackgroundSuccess

C21_Witness ==
    /\ child.kind = "background"
    /\ child.state = "closed"
    /\ child.errors > 0
    /\ outcome = BackgroundSuccess

\* the foreground process of the last request was ended by the timeout, and
\* by nothing else
TerminatedByTimeout ==
    /\ child.kind = "foreground"
    /\ child.timedOut
    /\ ~child.overflowed
    /\ child.state = "closed"

\* C22: a foreground command that still runs when the timeout expires and is
\* terminated for that reason has the outcome Error with kind timeout
C22_TimeoutIsError ==
    TerminatedByTimeout => outcome = ErrorOutcome("timeout")

\* the text is the first characters that the process wrote to a stream, whose
\* characters are numbered from 1
IsPrefixOfWritten(text) == \A i \in 1..Len(text) : text[i] = i

\* the foreground execution of the last request has produced a Success
ForegroundSucceeded ==
    /\ child.kind = "foreground"
    /\ capture.resolves > 0
    /\ outcome.status = "success"

\* C23: in an outcome of a foreground execution, the captured stdout and the
\* captured stderr are each a prefix of what the process wrote to the stream,
\* no longer than the cap; of a stream that wrote more than the cap exactly
\* the first cap-many characters are retained and truncated is true
C23_CapturedIsPrefix ==
    ForegroundSucceeded =>
        /\ IsPrefixOfWritten(outcome.stdout)
        /\ IsPrefixOfWritten(outcome.stderr)
        /\ Len(outcome.stdout) <= MAX_BUFFER_SIZE
        /\ Len(outcome.stderr) <= MAX_BUFFER_SIZE
        /\ child.stdoutChars > MAX_BUFFER_SIZE =>
              Len(outcome.stdout) = MAX_BUFFER_SIZE /\ outcome.truncated = "true"
        /\ child.stderrChars > MAX_BUFFER_SIZE =>
              Len(outcome.stderr) = MAX_BUFFER_SIZE /\ outcome.truncated = "true"

\* C24: a foreground process that was terminated because its output exceeded
\* the size cap has the outcome Success with truncated = true and an exit
\* code, never an Error
C24_CapTerminationIsSuccess ==
    (child.kind = "foreground" /\ child.overflowed /\ capture.resolves > 0) =>
        /\ outcome.status = "success"
        /\ outcome.truncated = "true"
        /\ outcome.exitCode \in {-1, 0, 1}

\* C25: whatever strings the denylist and the allowlist of the loaded
\* configuration hold, executeCommand() never throws and its promise is
\* never rejected
C25_NeverRejects == outcome.status # "rejected"

ReloadSucceeds(file) ==
    /\ file.readable
    /\ file.content.json
    /\ file.content.document.autorun_mode
    /\ file.content.document.has \cap file.content.document.bad = {}

\* the member of the document of the file, or the default if it is left out
MemberOr(file, name, default) ==
    IF name \in file.content.document.has
    THEN file.content.document.value[name]
    ELSE default

\* the snapshot the file describes, nothing of it taken from elsewhere
SnapshotOf(file) ==
    [enabled |-> MemberOr(file, "enabled", FALSE),
     allowlist |-> MemberOr(file, "allowlist", <<>>),
     denylist |-> MemberOr(file, "denylist", <<>>),
     allow_all_other_commands |-> MemberOr(file, "allow_all_other_commands", FALSE)]

\* C27: loading a configuration file either replaces the whole active
\* snapshot by the one the file describes, or, when the file cannot be read,
\* is no JSON or violates the schema, leaves the snapshot as it was
C27_ReloadAllOrNothing ==
    [][\A file \in ConfigFiles :
          \/ ~loadConfigFile(file)
          \/ activeConfig' = IF ReloadSucceeds(file)
                             THEN SnapshotOf(file)
                             ELSE activeConfig]_vars

C27_Witness ==
    /\ activeConfig = AutorunMode(FALSE, << <<"r">> >>, << <<"m">> >>, FALSE)
    /\ toolCalls = 0

\* the gate decision for a command and a flag under a snapshot
DecisionFor(config, command, flag) ==
    IF isCommandDenied(config, command)
    THEN IF flag THEN "RequireApproval" ELSE "Deny"
    ELSE IF flag /\ ~shouldAutoApproveCommand(config, command)
    THEN "RequireApproval"
    ELSE "Admit"

\* the gate decision that executeCommand() took for the last request
DecisionTaken ==
    CASE Len(execCalls) = 1 -> "Admit"
      [] outcome = ErrorOutcome("security_violation") -> "Deny"
      [] outcome = WaitingOutcome -> "RequireApproval"
      [] OTHER -> "none"

\* C28: the gate decision of every request is the one that its command, its
\* flag and the active snapshot determine, whatever requests were executed
\* before it
C28_DecisionDeterministic ==
    [][toolCalls' = toolCalls + 1 =>
          DecisionTaken' = DecisionFor(activeConfig, params'.command,
                                       params'.require_user_approval)]_vars

C28_Witness ==
    /\ toolCalls = 2
    /\ DecisionTaken = "Admit"
    /\ params.require_user_approval

\* the tool-call result reflects the outcome
ReflectsOutcome ==
    CASE outcome.status = "success" ->
            toolResult = ToolResult(FALSE, [stdout |-> outcome.stdout,
                                            stderr |-> outcome.stderr,
                                            exitCode |-> outcome.exitCode,
                                            truncated |-> outcome.truncated])
      [] outcome.status = "error" ->
            /\ toolResult.kind = "result"
            /\ toolResult.isError
            /\ toolResult.text = [error |-> TRUE, code |-> outcome.code]
      [] outcome.status = "waiting" ->
            /\ toolResult.kind = "result"
            /\ toolResult.text = [code |-> outcome.code]
      [] OTHER -> TRUE

\* C29: the result the dispatcher returns for a valid tool call reflects the
\* outcome of executeCommand(): a Success as a result that is no error and
\* holds stdout, stderr and the exit code, an Error as a result with isError
\* and the error kind, a Waiting as a result that says so
C29_ResultReflectsOutcome ==
    (toolResult # InvalidArgumentsResult /\ toolResult # HandlerThrows) =>
        ReflectsOutcome

\* the arguments have the shape of a CommandRequest
HasRequestShape(args) ==
    /\ \A i \in 1..Len(args.command) : args.command[i] # "\n"
    /\ args.explanation # "absent"
    /\ args.is_background # "absent"
    /\ args.require_user_approval # "absent"

\* C30: a tool call whose arguments have not the shape of a CommandRequest,
\* such as a command with a line break, is answered with the
\* invalid-arguments error result; no policy check is made for it and no
\* process is started
C30_InvalidArgumentsStopped ==
    [][\A request \in ExecRequests :
          (request.name = TOOL_NAME /\ ~HasRequestShape(request.arguments)) =>
              \/ ~callToolHandler(request)
              \/ /\ toolResult' = InvalidArgumentsResult
                 /\ UNCHANGED <<toolCalls, params, outcome, execCalls, child,
                                capture>>]_vars

C30_Witness ==
    /\ toolResult = InvalidArgumentsResult
    /\ toolCalls = 0
    /\ execCalls = <<>>

\* ---------------------------------------------------------------- C31 - C40

\* the messages of the frames that are JSON, in the order of the frames
RECURSIVE ParsedMessages(_)
ParsedMessages(frames) ==
    IF frames = <<>> THEN <<>>
    ELSE IF Len(Head(frames)) = 3
    THEN <<[id |-> Head(frames)[2]]>> \o ParsedMessages(Tail(frames))
    ELSE ParsedMessages(Tail(frames))

\* C31: each transport has invoked the callback once for each inbound frame
\* that is the JSON text of a message, in the order of arrival, and not at
\* all for a malformed frame, after which later frames are still delivered
C31_OneCallbackPerParsedFrame ==
    /\ stdio.callbacks = ParsedMessages(stdio.frames)
    /\ sse.callbacks = ParsedMessages(sse.frames)

C31_Witness ==
    /\ Len(stdio.frames) = 2 /\ ~IsJson(stdio.frames[1]) /\ Len(stdio.callbacks) = 1
    /\ Len(sse.frames) = 2 /\ ~IsJson(sse.frames[1]) /\ Len(sse.callbacks) = 1

\* the arguments of the example of the README: command, explanation and
\* is_background = false, nothing else
IsReadmeExample(request) ==
    /\ request.name = TOOL_NAME
    /\ request.arguments.command \in Commands
    /\ request.arguments.explanation = "string"
    /\ request.arguments.is_background = "false"
    /\ request.arguments.require_user_approval = "absent"

\* C32: a request with the arguments of the README example, for a command
\* that the policy admits, is executed: executeCommand() is invoked for it
\* and starts the process whose output the Success result holds
C32_ReadmeExampleExecuted ==
    [][\A request \in ExecRequests :
          (IsReadmeExample(request)
             /\ ~isCommandDenied(activeConfig, request.arguments.command)) =>
              \/ ~callToolHandler(request)
              \/ /\ toolCalls' = toolCalls + 1
                 /\ execCalls' = <<ExecCall(request.arguments.command)>>
                 /\ toolResult' = AwaitingOutcome]_vars

\* C33: the deny check and the auto-approval check of one executeCommand()
\* read one snapshot: the decision is the one of the configuration that is
\* active before and after the step, also when the configuration was
\* replaced between requests
C33_OneSnapshotPerDecision ==
    [][toolCalls' = toolCalls + 1 =>
          \E snapshot \in GateConfigs \cup {defaultConfig} :
              /\ snapshot = activeConfig
              /\ snapshot = activeConfig'
              /\ (execCalls' = <<>>) =
                    (\/ isCommandDenied(snapshot, params'.command)
                     \/ /\ params'.require_user_approval
                        /\ ~shouldAutoApproveCommand(snapshot, params'.command))
              /\ (outcome' = ErrorOutcome("security_violation")) =
                    (/\ isCommandDenied(snapshot, params'.command)
                     /\ ~params'.require_user_approval)]_vars

C33_Witness ==
    /\ toolCalls = 2
    /\ activeConfig = AutorunMode(TRUE, <<>>, << <<"m">> >>, TRUE)
    /\ params.command = <<"m">>
    /\ Refused

\* C34: in every state where the session is closed, the pending map is
\* empty, no handshake is in flight, and every call() and performHandshake()
\* issued after close() is settled
C34_NoHangAfterClose ==
    closed =>
        /\ DOMAIN pending = {}
        /\ initializePromise = 0
        /\ \A n \in 1..Len(callPromise) :
              ~callPromise[n].openAtCall => callPromise[n].state # "unsettled"

\* the caller awaits a promise that nothing settles any more: it is unsettled
\* and the client has dropped its resolve and reject functions
LeftWaiting(c) ==
    /\ handshakeCalls[c].state = "awaiting"
    /\ initPromise[handshakeCalls[c].awaits].state = "unsettled"
    /\ resolveInitialize # handshakeCalls[c].awaits
    /\ rejectInitialize # handshakeCalls[c].awaits

\* C35: no performHandshake() caller is left waiting with the handshake
\* state already reset, whatever the Response with the handshake id holds:
\* as long as its promise is unsettled the client can still settle it
C35_HandshakeCallerSettled ==
    \A c \in 1..Len(handshakeCalls) : ~LeftWaiting(c)

\* the initialize exchanges that succeeded
SuccessfulExchanges ==
    {g \in 1..Len(initPromise) : initPromise[g].state = "resolved"}

\* C36: no more notifications/initialized Notifications are sent than
\* initialize exchanges succeeded, however many performHandshake() calls
\* waited for an exchange
C36_OneNotificationPerExchange ==
    sent.initialized <= Cardinality(SuccessfulExchanges)

\* C37: once an initialize exchange has succeeded and until close(), no
\* further initialize Request is sent
C37_OneExchangePerSession ==
    [][(SuccessfulExchanges # {} /\ ~closed) =>
          sent'.initialize = sent.initialize]_vars

\* C38: the pipe transport has written the messages in the order in which
\* send() was called for them
C38_WritesInSendOrder ==
    \A i, j \in 1..Len(stdio.written) :
        i < j => stdio.written[i] < stdio.written[j]

\* all that the stream delivered is captured, if it is no more than the cap
CapturedWhileUnderCap(delivered, captured) ==
    delivered <= MAX_BUFFER_SIZE => captured = Chunk(1, delivered)

\* C39: the cap applies to each stream by itself: what a stream delivered
\* is captured as long as it fits under the cap of that stream, whatever the
\* other stream delivered
C39_CapPerStream ==
    child.kind = "foreground" =>
        /\ CapturedWhileUnderCap(child.stdoutChars, capture.stdout)
        /\ CapturedWhileUnderCap(child.stderrChars, capture.stderr)

\* C40: under a fixed configuration, a request for a command that the policy
\* denies starts no process, whatever its flags and whatever was submitted
\* before; without the approval flag its outcome is security_violation, also
\* when the request before it was for the same command and kept waiting
C40_DeniedNeverLaunched ==
    [][(toolCalls' = toolCalls + 1
          /\ activeConfig' = activeConfig
          /\ isCommandDenied(activeConfig, params'.command)) =>
            /\ execCalls' = <<>>
            /\ child'.kind = "none"
            /\ ~params'.require_user_approval =>
                  outcome' = ErrorOutcome("security_violation")]_vars

C40_Witness ==
    /\ toolCalls = 2
    /\ isCommandDenied(activeConfig, params.command)
    /\ ~params.require_user_approval
    /\ Refused

====
